---- MODULE Spec2Model ----
(***************************************************************************)
(* BarberFlow: the availability and booking engine (services/ and          *)
(* agent/tools.py) as a state machine over the appointments collection,    *)
(* the barbers collection and the wall clock.                              *)
(***************************************************************************)
EXTENDS Integers, Sequences, FiniteSets, TLC

(***************************************************************************)
(* Time.  An instant is a naive datetime, counted in units: one minute is  *)
(* Resolution units, so unit Minutes(m) + f with f > 0 is minute m plus a  *)
(* non-zero microsecond field.  Seconds are always zero.                   *)
(***************************************************************************)
Fractions == {0, 1}

Resolution == Cardinality(Fractions)

MinutesPerDay == 24 * 60

Minutes(m) == m * Resolution

DayLen == Minutes(MinutesPerDay)

DayNames == <<"monday", "tuesday", "wednesday", "thursday", "friday", "saturday", "sunday">>

\* datetime.date(): the calendar day of an instant.
DateOf(t) == t \div DayLen

\* the microsecond field of an instant.
MicroOf(t) == t % Resolution

\* the hour and minute fields, as minutes since midnight.
MinuteOfDay(t) == (t % DayLen) \div Resolution

\* the instant of calendar day d at hour:minute, second 0, microsecond micro.
At(d, hour, minute, micro) == d * DayLen + Minutes(60 * hour + minute) + micro

\* dt.strftime("%A").lower(); day 0 of the model is a monday.
get_day_name(dt) == DayNames[(DateOf(dt) % Len(DayNames)) + 1]

\* int(s.split(":")[0]), int(s.split(":")[1]) of an "HH:MM" string, kept as <<HH, MM>>.
HourOf(hhmm) == hhmm[1]

MinuteOf(hhmm) == hhmm[2]

\* strftime("%I:%M %p"): the 12-hour clock rendering <<hour 1..12, minute, AM/PM>>.
Format12(t) ==
    LET h == MinuteOfDay(t) \div 60
        m == MinuteOfDay(t) % 60
    IN  << IF h % 12 = 0 THEN 12 ELSE h % 12, m, IF h < 12 THEN "AM" ELSE "PM" >>

SlotStride == 30

DefaultDuration == 30

MaxAlternatives == 5

ScanDays == 7

(***************************************************************************)
(* Sequences and optional values.                                          *)
(***************************************************************************)
\* the least element of a non-empty set of integers.
Min(S) == CHOOSE x \in S : \A y \in S : x <= y

\* the index of the first element of s that satisfies Test; 0 if none.
SelectFirst(s, Test(_)) ==
    IF \E i \in 1..Len(s) : Test(s[i])
    THEN Min({i \in 1..Len(s) : Test(s[i])})
    ELSE 0

\* s[:n]
Take(s, n) == SubSeq(s, 1, IF Len(s) < n THEN Len(s) ELSE n)

None == [none |-> TRUE]

\* s[i], or None for index 0.
ElementOrNone(s, i) == IF i = 0 THEN None ELSE s[i]

\* `a or b` over optional documents.
OrElse(a, b) == IF a # None THEN a ELSE b

(***************************************************************************)
(* The barbers collection: a sequence of documents in insertion order.     *)
(***************************************************************************)
\* db.barbers.find_one({"_id": barber_id})
get_barber_by_id(barbers, barber_id) ==
    ElementOrNone(barbers, SelectFirst(barbers, LAMBDA b: b.id = barber_id))

(***************************************************************************)
(* Text.  A str is a sequence of one-character strings.                    *)
(***************************************************************************)
UpperCase == <<"A", "B", "C", "D", "E", "F", "G", "H", "I", "J", "K", "L", "M",
               "N", "O", "P", "Q", "R", "S", "T", "U", "V", "W", "X", "Y", "Z">>

LowerCase == <<"a", "b", "c", "d", "e", "f", "g", "h", "i", "j", "k", "l", "m",
               "n", "o", "p", "q", "r", "s", "t", "u", "v", "w", "x", "y", "z">>

\* the characters in code-point order: space, digits, upper case, lower case.
CodePoints == <<" ", "0", "1", "2", "3", "4", "5", "6", "7", "8", "9">> \o UpperCase \o LowerCase

\* ord(c)
Ord(c) == CHOOSE i \in 1..Len(CodePoints) : CodePoints[i] = c

LowerChar(c) ==
    IF \E i \in 1..Len(UpperCase) : UpperCase[i] = c
    THEN LowerCase[CHOOSE i \in 1..Len(UpperCase) : UpperCase[i] = c]
    ELSE c

\* str.lower()
Lower(s) == [i \in 1..Len(s) |-> LowerChar(s[i])]

\* str.strip()
Strip(s) ==
    IF \A i \in 1..Len(s) : s[i] = " " THEN << >>
    ELSE SubSeq(s, Min({i \in 1..Len(s) : s[i] # " "}),
                   CHOOSE i \in 1..Len(s) : s[i] # " " /\ \A j \in (i + 1)..Len(s) : s[j] = " ")

RECURSIVE SplitFrom(_, _, _)
\* str.split() from index i on, with the word collected so far.
SplitFrom(s, i, word) ==
    IF i > Len(s) THEN (IF word = << >> THEN << >> ELSE <<word>>)
    ELSE IF s[i] = " "
         THEN (IF word = << >> THEN << >> ELSE <<word>>) \o SplitFrom(s, i + 1, << >>)
         ELSE SplitFrom(s, i + 1, Append(word, s[i]))

Split(s) == SplitFrom(s, 1, << >>)

\* sub in s
Contains(s, sub) ==
    \E i \in 1..(Len(s) - Len(sub) + 1) : SubSeq(s, i, i + Len(sub) - 1) = sub

\* s < t, by code points.
StrLess(s, t) ==
    \E k \in 1..Len(t) :
        /\ k <= Len(s) + 1
        /\ SubSeq(s, 1, k - 1) = SubSeq(t, 1, k - 1)
        /\ (k = Len(s) + 1 \/ Ord(s[k]) < Ord(t[k]))

(***************************************************************************)
(* difflib.SequenceMatcher (no junk, sequences shorter than 200).          *)
(***************************************************************************)
RECURSIVE RunLength(_, _, _, _, _, _)
\* the length of the common run a[i..], b[j..] inside a[..ahi], b[..bhi].
RunLength(a, b, i, j, ahi, bhi) ==
    IF i > ahi \/ j > bhi THEN 0
    ELSE IF a[i] # b[j] THEN 0
    ELSE 1 + RunLength(a, b, i + 1, j + 1, ahi, bhi)

\* the best of a non-empty set of blocks <<i, j, size>>: the longest, then the
\* earliest in a, then the earliest in b.
BestBlock(blocks) ==
    CHOOSE x \in blocks : \A y \in blocks :
        \/ x[3] > y[3]
        \/ x[3] = y[3] /\ x[1] < y[1]
        \/ x[3] = y[3] /\ x[1] = y[1] /\ x[2] <= y[2]

\* find_longest_match(alo, ahi, blo, bhi), over 1-based closed ranges.
find_longest_match(a, b, alo, ahi, blo, bhi) ==
    IF alo > ahi \/ blo > bhi THEN <<alo, blo, 0>>
    ELSE BestBlock({<<i, j, RunLength(a, b, i, j, ahi, bhi)>> : i \in alo..ahi, j \in blo..bhi})

RECURSIVE MatchCount(_, _, _, _, _, _)
RECURSIVE MatchAround(_, _, _, _, _, _, _)
\* the matches left and right of the longest block m, plus its size.
MatchAround(m, a, b, alo, ahi, blo, bhi) ==
    IF m[3] = 0 THEN 0
    ELSE m[3] + MatchCount(a, b, alo, m[1] - 1, blo, m[2] - 1)
              + MatchCount(a, b, m[1] + m[3], ahi, m[2] + m[3], bhi)

\* the total size of get_matching_blocks over a[alo..ahi], b[blo..bhi].
MatchCount(a, b, alo, ahi, blo, bhi) ==
    MatchAround(find_longest_match(a, b, alo, ahi, blo, bhi), a, b, alo, ahi, blo, bhi)

\* SequenceMatcher(None, a, b).ratio() as the fraction <<2 * matches, len(a) + len(b)>>.
Ratio(a, b) == <<2 * MatchCount(a, b, 1, Len(a), 1, Len(b)), Len(a) + Len(b)>>

\* ratio >= 0.6
AboveCutoff(r) == IF r[2] = 0 THEN TRUE ELSE 10 * r[1] >= 6 * r[2]

\* (score, x) <= (score, y) for fractions ri, rj and strings x, y.
ScoredBelow(ri, x, rj, y) ==
    \/ ri[1] * rj[2] < rj[1] * ri[2]
    \/ ri[1] * rj[2] = rj[1] * ri[2] /\ (x = y \/ StrLess(x, y))

\* heapq.nlargest(1, ...) over the possibilities whose score reaches the cutoff.
BestScored(possibilities, scores) ==
    IF \A i \in 1..Len(scores) : ~AboveCutoff(scores[i]) THEN << >>
    ELSE <<possibilities[
             CHOOSE i \in 1..Len(scores) :
                /\ AboveCutoff(scores[i])
                /\ \A j \in 1..Len(scores) :
                      AboveCutoff(scores[j]) =>
                          ScoredBelow(scores[j], possibilities[j],
                                      scores[i], possibilities[i])]>>

\* difflib.get_close_matches(word, possibilities, n=1, cutoff=0.6)
get_close_matches(word, possibilities) ==
    BestScored(possibilities,
               [i \in 1..Len(possibilities) |-> Ratio(possibilities[i], word)])

(***************************************************************************)
(* Name resolution.                                                        *)
(***************************************************************************)
\* find({"is_available": True}) in collection order.
AvailableBarbers(barbers) == SelectSeq(barbers, LAMBDA b: b.is_available)

\* any(sw in bw or bw in sw for sw in search_words for bw in barber_words)
WordTest(search_words, barber_words) ==
    \E x \in 1..Len(search_words) : \E y \in 1..Len(barber_words) :
        \/ Contains(barber_words[y], search_words[x])
        \/ Contains(search_words[x], barber_words[y])

\* the exact stage: the name matches ^name_lower$ ignoring case.
ExactStage(candidates, name_lower) ==
    ElementOrNone(candidates,
                  SelectFirst(candidates, LAMBDA b: Lower(b.name) = name_lower))

\* the partial stage: the name contains name_lower ignoring case.
PartialStage(candidates, name_lower) ==
    ElementOrNone(candidates,
                  SelectFirst(candidates, LAMBDA b: Contains(Lower(b.name), name_lower)))

\* the token stage for one search word.
TokenMatch(candidates, search_word, search_words) ==
    ElementOrNone(candidates,
                  SelectFirst(candidates,
                              LAMBDA b: /\ Contains(Lower(b.name), search_word)
                                        /\ WordTest(search_words, Split(Lower(b.name)))))

\* the token stage: the first search word with a match decides.
TokenStage(candidates, search_words) ==
    ElementOrNone([w \in 1..Len(search_words) |->
                      TokenMatch(candidates, search_words[w], search_words)],
                  SelectFirst(search_words,
                              LAMBDA w: TokenMatch(candidates, w, search_words) # None))

\* the barber carrying the best matching name, if there is one.
NamedBarber(candidates, best_matches) ==
    IF best_matches = << >> THEN None
    ELSE ElementOrNone(candidates,
                       SelectFirst(candidates, LAMBDA b: b.name = best_matches[1]))

\* the similarity fallback.
SimilarityStage(candidates, name) ==
    IF candidates = << >> THEN None
    ELSE NamedBarber(candidates,
                     get_close_matches(name, [i \in 1..Len(candidates) |-> candidates[i].name]))

\* stages that try the substring of the name before the exact name.
NameStagesPartialFirst(candidates, name, name_lower) ==
    OrElse(PartialStage(candidates, name_lower),
           OrElse(ExactStage(candidates, name_lower),
                  OrElse(TokenStage(candidates, Split(name_lower)),
                         SimilarityStage(candidates, name))))

\* the stages of get_barber_by_name in order.
NameStages(candidates, name, name_lower) ==
    OrElse(ExactStage(candidates, name_lower),
           OrElse(PartialStage(candidates, name_lower),
                  OrElse(TokenStage(candidates, Split(name_lower)),
                         SimilarityStage(candidates, name))))

get_barber_by_name(barbers, name) ==
    IF Strip(name) = << >> THEN None
    ELSE NameStages(AvailableBarbers(barbers), name, Lower(Strip(name)))

(***************************************************************************)
(* The appointments collection: a sequence of documents.                   *)
(***************************************************************************)
\* a find that leaves the status out of its filter.
get_barber_appointmentsAnyStatus(appointments, barber_id, start_date, end_date) ==
    SelectSeq(appointments,
              LAMBDA a: /\ a.barber_id = barber_id
                        /\ a.appointment_datetime >= start_date
                        /\ a.appointment_datetime <= end_date)

\* find({barber_id, status: "confirmed", appointment_datetime: {$gte, $lte}})
get_barber_appointments(appointments, barber_id, start_date, end_date) ==
    SelectSeq(appointments,
              LAMBDA a: /\ a.barber_id = barber_id
                        /\ a.status = "confirmed"
                        /\ a.appointment_datetime >= start_date
                        /\ a.appointment_datetime <= end_date)

\* the end instant of an appointment.
ApptEnd(appt) == appt.appointment_datetime + Minutes(appt.duration_minutes)

\* the documents update_one({"_id": appointment_id}, ...) changes: the first with
\* that id whose status the $set would alter.
CancelTargets(appointments, appointment_id) ==
    { i \in 1..Len(appointments) :
        /\ appointments[i].id = appointment_id
        /\ appointments[i].status # "cancelled"
        /\ \A j \in 1..(i - 1) : appointments[j].id # appointment_id }

\* cancel_appointment: the collection after the update, and modified_count > 0.
cancel_appointment(appointments, appointment_id) ==
    [appointments |->
        [i \in 1..Len(appointments) |->
            IF i \in CancelTargets(appointments, appointment_id)
            THEN [appointments[i] EXCEPT !.status = "cancelled"]
            ELSE appointments[i]],
     result |-> CancelTargets(appointments, appointment_id) # {}]

(***************************************************************************)
(* Availability engine.                                                    *)
(***************************************************************************)
\* date.replace(hour=..., minute=..., second=0, microsecond=0) for an "HH:MM" entry
WorkInstant(date, hhmm) == At(DateOf(date), HourOf(hhmm), MinuteOf(hhmm), 0)

\* date.replace(hour=0, minute=0, second=0): the microsecond field is kept.
SlotsDayStart(date) == At(DateOf(date), 0, 0, MicroOf(date))

\* date.replace(hour=23, minute=59, second=59): past every instant of minute 23:59.
SlotsDayEnd(date) == At(DateOf(date), 23, 59, Resolution - 1)

\* the overlap test of the slot loop: appt.start < slot_end and appt_end > current_time
SlotOverlaps(appt, current_time, slot_end) ==
    appt.appointment_datetime < slot_end /\ ApptEnd(appt) > current_time

\* an is_future that holds of every slot.
SlotIsFutureAlways(now, date, current_time) == TRUE

\* is_future of the slot loop
SlotIsFuture(now, date, current_time) ==
    IF DateOf(date) = DateOf(now) THEN current_time > now ELSE TRUE

\* a Slot
Slot(current_time) == [time |-> current_time, formatted |-> Format12(current_time)]

RECURSIVE SlotLoopToEnd(_, _, _, _, _, _)
\* a slot loop that runs while current_time < work_end.
SlotLoopToEnd(appts, now, date, current_time, work_end, service_duration) ==
    IF current_time < work_end
    THEN (IF /\ SlotIsFuture(now, date, current_time)
             /\ \A i \in 1..Len(appts) :
                   ~SlotOverlaps(appts[i], current_time,
                                 current_time + Minutes(service_duration))
          THEN <<Slot(current_time)>>
          ELSE << >>)
         \o SlotLoopToEnd(appts, now, date, current_time + Minutes(SlotStride), work_end,
                          service_duration)
    ELSE << >>

RECURSIVE SlotLoopByDuration(_, _, _, _, _, _)
\* a slot loop that steps by the service duration.
SlotLoopByDuration(appts, now, date, current_time, work_end, service_duration) ==
    IF current_time + Minutes(service_duration) <= work_end
    THEN (IF /\ SlotIsFuture(now, date, current_time)
             /\ \A i \in 1..Len(appts) :
                   ~SlotOverlaps(appts[i], current_time,
                                 current_time + Minutes(service_duration))
          THEN <<Slot(current_time)>>
          ELSE << >>)
         \o SlotLoopByDuration(appts, now, date, current_time + Minutes(service_duration),
                               work_end, service_duration)
    ELSE << >>

RECURSIVE SlotLoop(_, _, _, _, _, _)
\* the while loop of get_available_slots from current_time on.
SlotLoop(appts, now, date, current_time, work_end, service_duration) ==
    IF current_time + Minutes(service_duration) <= work_end
    THEN (IF /\ SlotIsFuture(now, date, current_time)
             /\ \A i \in 1..Len(appts) :
                   ~SlotOverlaps(appts[i], current_time,
                                 current_time + Minutes(service_duration))
          THEN <<Slot(current_time)>>
          ELSE << >>)
         \o SlotLoop(appts, now, date, current_time + Minutes(SlotStride), work_end,
                     service_duration)
    ELSE << >>

\* a get_available_slots that does not look at is_off.
SlotsInHoursAnyDay(hours, appointments, now, barber_id, date, service_duration) ==
    SlotLoop(get_barber_appointments(appointments, barber_id,
                                     SlotsDayStart(date), SlotsDayEnd(date)),
             now, date, WorkInstant(date, hours.start), WorkInstant(date, hours.end),
             service_duration)

\* get_available_slots once the working hours of the day are known.
SlotsInHours(hours, appointments, now, barber_id, date, service_duration) ==
    IF hours.is_off THEN << >>
    ELSE SlotLoop(get_barber_appointments(appointments, barber_id,
                                          SlotsDayStart(date), SlotsDayEnd(date)),
                  now, date, WorkInstant(date, hours.start), WorkInstant(date, hours.end),
                  service_duration)

\* get_available_slots once the barber document is fetched.
SlotsOfBarber(barber, appointments, now, barber_id, date, service_duration) ==
    IF barber = None THEN << >>
    ELSE IF get_day_name(date) \notin DOMAIN barber.working_hours THEN << >>
    ELSE SlotsInHours(barber.working_hours[get_day_name(date)], appointments, now,
                      barber_id, date, service_duration)

get_available_slots(barbers, appointments, now, barber_id, date, service_duration) ==
    SlotsOfBarber(get_barber_by_id(barbers, barber_id), appointments, now, barber_id,
                  date, service_duration)

RECURSIVE NextAvailableFrom(_, _, _, _, _, _, _)
RECURSIVE NextAvailableOr(_, _, _, _, _, _, _, _)
\* one iteration of the loop of _get_next_available_slots, given that day's slots.
NextAvailableOr(slots, barbers, appointments, now, barber_id, date, service_duration, left) ==
    IF slots # << >> THEN slots
    ELSE NextAvailableFrom(barbers, appointments, now, barber_id, date + DayLen,
                           service_duration, left - 1)

\* the for loop of _get_next_available_slots with `left` iterations to go.
NextAvailableFrom(barbers, appointments, now, barber_id, date, service_duration, left) ==
    IF left = 0 THEN << >>
    ELSE NextAvailableOr(get_available_slots(barbers, appointments, now, barber_id, date,
                                             service_duration),
                         barbers, appointments, now, barber_id, date, service_duration, left)

get_next_available_slots(barbers, appointments, now, barber_id, start_date, service_duration) ==
    NextAvailableFrom(barbers, appointments, now, barber_id, start_date, service_duration,
                      ScanDays)

(***************************************************************************)
(* Conflict checker.                                                       *)
(***************************************************************************)
Verdict(available, reason, alternatives) ==
    [available |-> available, reason |-> reason, alternatives |-> alternatives]

\* slot_datetime.replace(hour=0, minute=0, second=0, microsecond=0)
CheckDayStart(slot_datetime) == At(DateOf(slot_datetime), 0, 0, 0)

\* slot_datetime.replace(hour=23, minute=59, second=59, microsecond=999999)
CheckDayEnd(slot_datetime) == At(DateOf(slot_datetime), 23, 59, Resolution - 1)

\* an overlap test that takes only an appointment under way at the slot's start.
CheckOverlapsUnderWay(appt, slot_datetime, slot_end) ==
    appt.appointment_datetime < slot_datetime /\ slot_datetime < ApptEnd(appt)

\* the overlap test of the conflict loop: slot_start < appt_end and slot_end > appt_start
CheckOverlaps(appt, slot_datetime, slot_end) ==
    slot_datetime < ApptEnd(appt) /\ slot_end > appt.appointment_datetime

\* a conflict loop that takes only an appointment starting at the slot's start.
HasConflictSameStart(appts, slot_datetime, slot_end) ==
    \E i \in 1..Len(appts) : appts[i].appointment_datetime = slot_datetime

\* the conflict loop over the day's appointments.
HasConflict(appts, slot_datetime, slot_end) ==
    \E i \in 1..Len(appts) : CheckOverlaps(appts[i], slot_datetime, slot_end)

\* alternatives that are always searched from now on.
AlternativesFromNow(kind, barbers, appointments, now, barber_id, slot_datetime, duration) ==
    get_next_available_slots(barbers, appointments, now, barber_id, now, duration)

\* the alternatives of each unavailable verdict, before truncation.
Alternatives(kind, barbers, appointments, now, barber_id, slot_datetime, duration) ==
    IF kind = "past" \/ (kind = "hours" /\ DateOf(slot_datetime) < DateOf(now))
    THEN get_next_available_slots(barbers, appointments, now, barber_id, now, duration)
    ELSE get_available_slots(barbers, appointments, now, barber_id, slot_datetime, duration)

\* a decision that does not compare with the work window.
CheckKindAnyHour(hours, appointments, now, barber_id, slot_datetime, duration) ==
    IF slot_datetime < now THEN "past"
    ELSE IF HasConflict(get_barber_appointments(appointments, barber_id,
                                                CheckDayStart(slot_datetime),
                                                CheckDayEnd(slot_datetime)),
                        slot_datetime, slot_datetime + Minutes(duration))
    THEN "conflict"
    ELSE "free"

\* a decision that compares with the clock before it compares with the work window.
CheckKindPastFirst(hours, appointments, now, barber_id, slot_datetime, duration) ==
    IF slot_datetime < now THEN "past"
    ELSE IF \/ slot_datetime < WorkInstant(slot_datetime, hours.start)
            \/ slot_datetime + Minutes(duration) > WorkInstant(slot_datetime, hours.end)
    THEN "hours"
    ELSE IF HasConflict(get_barber_appointments(appointments, barber_id,
                                                CheckDayStart(slot_datetime),
                                                CheckDayEnd(slot_datetime)),
                        slot_datetime, slot_datetime + Minutes(duration))
    THEN "conflict"
    ELSE "free"

\* which check of check_slot_availability fails first inside the working day.
CheckKind(hours, appointments, now, barber_id, slot_datetime, duration) ==
    IF \/ slot_datetime < WorkInstant(slot_datetime, hours.start)
       \/ slot_datetime + Minutes(duration) > WorkInstant(slot_datetime, hours.end)
    THEN "hours"
    ELSE IF slot_datetime < now THEN "past"
    ELSE IF HasConflict(get_barber_appointments(appointments, barber_id,
                                                CheckDayStart(slot_datetime),
                                                CheckDayEnd(slot_datetime)),
                        slot_datetime, slot_datetime + Minutes(duration))
    THEN "conflict"
    ELSE "free"

\* a verdict whose reason is taken from the alternatives when there are none.
KindVerdictByAlternatives(kind, alternatives) ==
    IF kind = "free" THEN Verdict(TRUE, "Slot is available", << >>)
    ELSE Verdict(FALSE,
                 IF alternatives = << >> THEN "No time slot is left"
                 ELSE IF kind = "hours" THEN "Time slot is outside working hours"
                 ELSE IF kind = "past" THEN "Time slot is in the past"
                 ELSE "Time slot conflicts with existing appointment",
                 Take(alternatives, MaxAlternatives))

\* a verdict that carries every alternative found.
KindVerdictUncut(kind, alternatives) ==
    IF kind = "free" THEN Verdict(TRUE, "Slot is available", << >>)
    ELSE Verdict(FALSE,
                 IF kind = "hours" THEN "Time slot is outside working hours"
                 ELSE IF kind = "past" THEN "Time slot is in the past"
                 ELSE "Time slot conflicts with existing appointment",
                 alternatives)

\* the verdict for each kind.
KindVerdict(kind, alternatives) ==
    IF kind = "free" THEN Verdict(TRUE, "Slot is available", << >>)
    ELSE Verdict(FALSE,
                 IF kind = "hours" THEN "Time slot is outside working hours"
                 ELSE IF kind = "past" THEN "Time slot is in the past"
                 ELSE "Time slot conflicts with existing appointment",
                 Take(alternatives, MaxAlternatives))

\* check_slot_availability from the parsing of the working hours on.
CheckInHours(kind, barbers, appointments, now, barber_id, slot_datetime, duration) ==
    KindVerdict(kind,
                IF kind = "free" THEN << >>
                ELSE Alternatives(kind, barbers, appointments, now, barber_id,
                                  slot_datetime, duration))

\* check_slot_availability once the barber document is fetched.
CheckOfBarber(barber, barbers, appointments, now, barber_id, slot_datetime, duration) ==
    IF barber = None THEN Verdict(FALSE, "Barber not found", << >>)
    ELSE IF ~barber.is_available THEN Verdict(FALSE, "Barber is not available", << >>)
    ELSE IF get_day_name(slot_datetime) \notin DOMAIN barber.working_hours
    THEN Verdict(FALSE, "Barber does not work on " \o get_day_name(slot_datetime), << >>)
    ELSE IF barber.working_hours[get_day_name(slot_datetime)].is_off
    THEN Verdict(FALSE, "Barber is off on " \o get_day_name(slot_datetime), << >>)
    ELSE CheckInHours(CheckKind(barber.working_hours[get_day_name(slot_datetime)],
                                appointments, now, barber_id, slot_datetime, duration),
                      barbers, appointments, now, barber_id, slot_datetime, duration)

check_slot_availability(barbers, appointments, now, barber_id, slot_datetime, duration) ==
    CheckOfBarber(get_barber_by_id(barbers, barber_id), barbers, appointments, now,
                  barber_id, slot_datetime, duration)

(***************************************************************************)
(* Date and time resolution.  dateutil's parser.parse(text, fuzzy=True) is *)
(* a library call: a text either fails to parse, parses to a naive         *)
(* datetime, or parses to a timezone-aware one.                            *)
(***************************************************************************)
Unparseable == [parse |-> "error", dt |-> 0]

Naive(t) == [parse |-> "naive", dt |-> t]

Aware(t) == [parse |-> "aware", dt |-> t]

Some(t) == [none |-> FALSE, dt |-> t]

\* parse_natural_datetime: None when the parser raises, and when comparing an aware
\* datetime with the naive datetime.now() raises.
parse_natural_datetime(now, text) ==
    IF text.parse # "naive" THEN None
    ELSE IF text.dt < now /\ DateOf(text.dt) = DateOf(now) THEN Some(text.dt + DayLen)
    ELSE Some(text.dt)

(***************************************************************************)
(* Booking engine.                                                         *)
(***************************************************************************)
NoId == 0

\* EmailStr validation of the Appointment model (email-validator is a library).
ValidEmails == {"ann@mail.com", "bob@mail.com"}

\* dt.isoformat() of a naive datetime: date, hour, minute, microsecond.
IsoFormat(t) == <<DateOf(t), MinuteOfDay(t) \div 60, MinuteOfDay(t) % 60, MicroOf(t)>>

\* the alternatives of a verdict as the tools render them.
FormatAlternatives(alternatives) ==
    [i \in 1..Len(alternatives) |->
        [time |-> Format12(alternatives[i].time), datetime |-> IsoFormat(alternatives[i].time)]]

\* an Appointment whose status defaults to pending.
AppointmentPending(id, customer_email, barber_id, barber_name, dt) ==
    [id |-> id, customer_email |-> customer_email, barber_id |-> barber_id,
     barber_name |-> barber_name, appointment_datetime |-> dt,
     duration_minutes |-> DefaultDuration, status |-> "pending"]

\* Appointment(...): the id comes from the default factory, status defaults to confirmed.
Appointment(id, customer_email, barber_id, barber_name, dt) ==
    [id |-> id, customer_email |-> customer_email, barber_id |-> barber_id,
     barber_name |-> barber_name, appointment_datetime |-> dt,
     duration_minutes |-> DefaultDuration, status |-> "confirmed"]

\* insert_one(appointment.model_dump(by_alias=True))
insert_one(appointments, appt) == Append(appointments, appt)

\* an id the store draws anew instead of the id of the inserted document.
fresh_id(appt) == appt.id + 1

\* str(result.inserted_id)
inserted_id(appt) == appt.id

\* a failure result; error_ref is the reference the "Barber not found" text ends with.
BookFailure(error, error_ref, alternatives, barber_name) ==
    [success |-> FALSE, error |-> error, error_ref |-> error_ref,
     appointment_id |-> NoId, confirmation_number |-> NoId,
     alternatives |-> alternatives, barber_name |-> barber_name, details |-> None]

BookSuccess(appt_id, appt) ==
    [success |-> TRUE, error |-> "", error_ref |-> << >>,
     appointment_id |-> appt_id, confirmation_number |-> appt_id,
     alternatives |-> << >>, barber_name |-> appt.barber_name, details |-> appt]

\* the outcome of the barber resolution of book_appointment.
BookResolved(by_id, by_names, barber_id, barber_name) ==
    IF by_id # None
    THEN [found |-> TRUE, barber_id |-> barber_id, barber_name |-> barber_name]
    ELSE IF by_names # None
    THEN [found |-> TRUE, barber_id |-> by_names.id, barber_name |-> by_names.name]
    ELSE [found |-> FALSE, barber_id |-> barber_id, barber_name |-> barber_name]

\* the barber resolution of book_appointment: by id, then by name from barber_id,
\* then by name from barber_name; the display name is replaced only on a name match.
BookResolve(barbers, barber_id, barber_name) ==
    BookResolved(get_barber_by_id(barbers, barber_id),
                 OrElse(get_barber_by_name(barbers, barber_id),
                        IF barber_name # << >> THEN get_barber_by_name(barbers, barber_name)
                        ELSE None),
                 barber_id, barber_name)

\* a book_appointment that goes on to create whatever the verdict.
BookOnAnyVerdict(availability, who, dt, args) ==
    [proceed |-> TRUE,
     customer_email |-> args.customer_email,
     barber_id |-> who.barber_id, barber_name |-> who.barber_name,
     dt |-> dt.dt, duration |-> DefaultDuration, availability |-> availability]

\* book_appointment on the verdict of its availability check.
BookOnVerdict(availability, who, dt, args) ==
    IF ~availability.available
    THEN [proceed |-> FALSE,
          result |-> BookFailure(availability.reason, << >>,
                                 FormatAlternatives(availability.alternatives),
                                 who.barber_name)]
    ELSE [proceed |-> TRUE,
          customer_email |-> args.customer_email,
          barber_id |-> who.barber_id, barber_name |-> who.barber_name,
          dt |-> dt.dt, duration |-> DefaultDuration, availability |-> availability]

\* book_appointment on the parsed datetime and the resolved barber.
BookOnResolved(dt, who, barbers, appointments, now, args) ==
    IF dt = None
    THEN [proceed |-> FALSE,
          result |-> BookFailure("Invalid date format", << >>, << >>, << >>)]
    ELSE IF ~who.found
    THEN [proceed |-> FALSE,
          result |-> BookFailure("Barber not found: ",
                                 IF args.barber_id # << >> THEN args.barber_id
                                 ELSE args.barber_name,
                                 << >>, << >>)]
    ELSE BookOnVerdict(check_slot_availability(barbers, appointments, now, who.barber_id,
                                               dt.dt, DefaultDuration),
                       who, dt, args)

\* book_appointment up to the return of check_slot_availability: either the failure
\* it returns, or the checked booking it goes on to create.
BookCheck(barbers, appointments, now, args) ==
    BookOnResolved(parse_natural_datetime(now, args.datetime_str),
                   BookResolve(barbers, args.barber_id, args.barber_name),
                   barbers, appointments, now, args)

\* a create_appointment whose failed insert leaves the document in the collection.
BookInsertKept(appt, appointments, next_id, db_ok) ==
    [appointments |-> insert_one(appointments, appt), next_id |-> next_id + 1,
     result |-> IF db_ok THEN BookSuccess(inserted_id(appt), appt)
                ELSE BookFailure("Failed to create appointment: insert error",
                                 << >>, << >>, << >>)]

\* an insert into a collection with a unique index over (barber, interval).
BookInsertUnique(appt, appointments, next_id, db_ok) ==
    IF \/ ~db_ok
       \/ \E i \in 1..Len(appointments) :
             /\ appointments[i].barber_id = appt.barber_id
             /\ appointments[i].appointment_datetime < ApptEnd(appt)
             /\ ApptEnd(appointments[i]) > appt.appointment_datetime
    THEN [appointments |-> appointments, next_id |-> next_id + 1,
          result |-> BookFailure("Failed to create appointment: insert error",
                                 << >>, << >>, << >>)]
    ELSE [appointments |-> insert_one(appointments, appt), next_id |-> next_id + 1,
          result |-> BookSuccess(inserted_id(appt), appt)]

\* create_appointment inside the try block, for the constructed Appointment.
BookInsert(appt, appointments, next_id, db_ok) ==
    IF ~db_ok
    THEN [appointments |-> appointments, next_id |-> next_id + 1,
          result |-> BookFailure("Failed to create appointment: insert error",
                                 << >>, << >>, << >>)]
    ELSE [appointments |-> insert_one(appointments, appt), next_id |-> next_id + 1,
          result |-> BookSuccess(inserted_id(appt), appt)]

\* the try block of book_appointment: build the Appointment and insert it.  db_ok is
\* whether insert_one succeeds.  Returns the collection, the id counter and the result.
BookCommit(appointments, next_id, checked, db_ok) ==
    IF checked.customer_email \notin ValidEmails
    THEN [appointments |-> appointments, next_id |-> next_id,
          result |-> BookFailure("Failed to create appointment: validation error",
                                 << >>, << >>, << >>)]
    ELSE BookInsert(Appointment(next_id, checked.customer_email, checked.barber_id,
                                checked.barber_name, checked.dt),
                    appointments, next_id, db_ok)

(***************************************************************************)
(* The read-only tools.                                                    *)
(***************************************************************************)
\* the barber resolution of check_slots and check_specific_slot: by id, then by name.
ResolveBarber(barbers, ref) ==
    OrElse(get_barber_by_id(barbers, ref), get_barber_by_name(barbers, ref))

\* check_slots on the resolved barber and the parsed date.
SlotsOnResolved(barber, dt, barbers, appointments, now) ==
    IF barber = None THEN << >>
    ELSE IF dt = None THEN << >>
    ELSE get_available_slots(barbers, appointments, now, barber.id, dt.dt, DefaultDuration)

check_slots(barbers, appointments, now, barber_id, date_str) ==
    SlotsOnResolved(ResolveBarber(barbers, barber_id),
                    parse_natural_datetime(now, date_str), barbers, appointments, now)

\* the result of check_specific_slot for a verdict.
SpecificResult(availability, barber) ==
    [available |-> availability.available, error |-> "",
     barber_id |-> barber.id, barber_name |-> barber.name,
     reason |-> availability.reason,
     alternatives |-> FormatAlternatives(availability.alternatives)]

\* check_specific_slot on the parsed datetime and the resolved barber.
SpecificOnResolved(dt, barber, barbers, appointments, now) ==
    IF dt = None
    THEN [available |-> FALSE, error |-> "Invalid date format", barber_id |-> << >>,
          barber_name |-> << >>, reason |-> "", alternatives |-> << >>]
    ELSE IF barber = None
    THEN [available |-> FALSE, error |-> "Barber not found: ", barber_id |-> << >>,
          barber_name |-> << >>, reason |-> "", alternatives |-> << >>]
    ELSE SpecificResult(check_slot_availability(barbers, appointments, now, barber.id,
                                                dt.dt, DefaultDuration),
                        barber)

check_specific_slot(barbers, appointments, now, barber_name_or_id, datetime_str) ==
    SpecificOnResolved(parse_natural_datetime(now, datetime_str),
                       ResolveBarber(barbers, barber_name_or_id),
                       barbers, appointments, now)

\* get_all_barbers: find({"is_available": True})
get_all_barbers(barbers) == SelectSeq(barbers, LAMBDA b: b.is_available)

\* get_barbers_by_specialty: a case-insensitive match inside one of the specialties,
\* among the available barbers.
get_barbers_by_specialty(barbers, specialty) ==
    SelectSeq(barbers,
              LAMBDA b: /\ b.is_available
                        /\ \E k \in 1..Len(b.specialties) :
                              Contains(Lower(b.specialties[k]), Lower(specialty)))

\* search_barbers: by specialty when one is given, all available barbers otherwise.
search_barbers(barbers, specialty) ==
    IF specialty # << >> THEN get_barbers_by_specialty(barbers, specialty)
    ELSE get_all_barbers(barbers)

\* the place of appointment a in the sorted sequence s: after the entries not later.
SortedInsert(a, s) ==
    SubSeq(s, 1, Cardinality({i \in 1..Len(s) :
                                s[i].appointment_datetime <= a.appointment_datetime}))
       \o <<a>>
       \o SubSeq(s, Cardinality({i \in 1..Len(s) :
                                    s[i].appointment_datetime <= a.appointment_datetime}) + 1,
                 Len(s))

RECURSIVE SortByDatetime(_)
\* .sort("appointment_datetime", 1)
SortByDatetime(s) ==
    IF s = << >> THEN << >>
    ELSE SortedInsert(s[Len(s)], SortByDatetime(SubSeq(s, 1, Len(s) - 1)))

\* get_appointments_by_email: the customer's appointments by ascending datetime.
get_appointments_by_email(appointments, email) ==
    SortByDatetime(SelectSeq(appointments, LAMBDA a: a.customer_email = email))

\* my_appointments
my_appointments(appointments, email) == get_appointments_by_email(appointments, email)

(***************************************************************************)
(* The conversation turn: the graph of the agent and tools nodes, and the  *)
(* entry points that run it.  The graph engine (langgraph) is a library:   *)
(* it starts at the entry point, runs one node per step, follows the edge  *)
(* of the node it ran, merges the node's return into the state with the    *)
(* reducer of the state's annotation, and raises GraphRecursionError when  *)
(* the steps reach the recursion limit before END.                         *)
(***************************************************************************)
HumanMessage(content) ==
    [type |-> "human", content |-> content, tool_calls |-> << >>, name |-> ""]

AIMessage(content, tool_calls) ==
    [type |-> "ai", content |-> content, tool_calls |-> tool_calls, name |-> ""]

\* the message the tools node makes of the result of one call.
ToolMessage(content, name) ==
    [type |-> "tool", content |-> content, tool_calls |-> << >>, name |-> name]

\* messages: Annotated[List[BaseMessage], add_messages], for messages with fresh ids.
add_messages(left, right) == left \o right

HistoryMessage(item) ==
    IF item.role = "user" THEN HumanMessage(item.content) ELSE AIMessage(item.content, << >>)

RECURSIVE HistoryMessages(_)
\* the loop of build_langchain_messages over the history.
HistoryMessages(history) ==
    IF history = << >> THEN << >>
    ELSE (IF Head(history).role \in {"user", "assistant"}
          THEN <<HistoryMessage(Head(history))>>
          ELSE << >>) \o HistoryMessages(Tail(history))

build_langchain_messages(message, history) ==
    Append(HistoryMessages(history), HumanMessage(message))

\* an edge from the agent node that leads to the tools node whatever the message.
tools_conditionAlways(msgs) == "tools"

\* langgraph.prebuilt.tools_condition on the state the agent node left.
tools_condition(msgs) ==
    IF msgs[Len(msgs)].type = "ai" /\ msgs[Len(msgs)].tool_calls # << >>
    THEN "tools"
    ELSE "END"

\* the tool calls the tools node runs: those of the last message.
Calls(msgs) == msgs[Len(msgs)].tool_calls

\* a call of one of the four reading tools.
ToolResult(barbers, appointments, now, call) ==
    CASE call.name = "search_barbers" ->
             search_barbers(barbers, call.args.specialty)
      [] call.name = "check_slots" ->
             check_slots(barbers, appointments, now, call.args.barber_id,
                         call.args.date_str)
      [] call.name = "check_specific_slot" ->
             check_specific_slot(barbers, appointments, now, call.args.barber_name_or_id,
                                 call.args.datetime_str)
      [] call.name = "my_appointments" ->
             my_appointments(appointments, call.args.email)

\* the tool messages of a round, one for each call, in the order of the calls.
ToolMessages(calls, results) ==
    [i \in 1..Len(calls) |-> ToolMessage(results[i], calls[i].name)]

Apology ==
    <<"I", " ", "a", "p", "o", "l", "o", "g", "i", "z", "e", ",", " ", "b",
      "u", "t", " ", "I", " ", "c", "o", "u", "l", "d", "n", "'", "t", " ",
      "g", "e", "n", "e", "r", "a", "t", "e", " ", "a", " ", "r", "e", "s",
      "p", "o", "n", "s", "e", ".", " ", "P", "l", "e", "a", "s", "e", " ",
      "t", "r", "y", " ", "a", "g", "a", "i", "n", ".">>

\* the test of /chat on a message: an AIMessage whose content is not blank.
Spoken(m) == m.type = "ai" /\ m.content # << >> /\ Strip(m.content) # << >>

\* the reply of /chat: the content of the last AIMessage that is not blank, else the
\* content of the last message when that is not blank, else the apology.
ChatReply(msgs) ==
    IF \E i \in 1..Len(msgs) : Spoken(msgs[i])
    THEN msgs[CHOOSE i \in 1..Len(msgs) :
             Spoken(msgs[i]) /\ \A j \in (i + 1)..Len(msgs) : ~Spoken(msgs[j])].content
    ELSE IF msgs[Len(msgs)].type = "tool" THEN msgs[Len(msgs)].content
    ELSE IF Strip(msgs[Len(msgs)].content) # << >> THEN msgs[Len(msgs)].content
    ELSE Apology

\* the messages the turn was started with end at its HumanMessage.
InputLen(msgs) ==
    CHOOSE i \in 1..Len(msgs) :
        msgs[i].type = "human" /\ \A j \in (i + 1)..Len(msgs) : msgs[j].type # "human"

RECURSIVE Streamed(_, _)
\* full_message of /chat/stream: the content of every chunk the chat model streamed
\* in the turn, that is of the messages of the agent node from the i-th on.
Streamed(msgs, i) ==
    IF i > Len(msgs) THEN << >>
    ELSE (IF msgs[i].type = "ai" THEN msgs[i].content ELSE << >>) \o Streamed(msgs, i + 1)

Reply(text) == [kind |-> "reply", text |-> text]

\* the response carries nothing: no event, no body.
Nothing == [kind |-> "nothing"]

Failure(status, detail) == [kind |-> "error", status |-> status, detail |-> detail]

\* what /chat/stream gives after the last event of the graph.
StreamReply(msgs) ==
    IF Streamed(msgs, InputLen(msgs) + 1) # << >>
    THEN Reply(Streamed(msgs, InputLen(msgs) + 1))
    ELSE Nothing

\* what the command-line loop prints.
MainReply(msgs) == Reply(msgs[Len(msgs)].content)

\* what the entry point gives when the graph has reached END.
Delivery(entry, msgs) ==
    CASE entry = "chat" -> Reply(ChatReply(msgs))
      [] entry = "chat_stream" -> StreamReply(msgs)
      [] entry = "main" -> MainReply(msgs)

\* what the entry point gives when the graph raises.
Raised(entry, exc) ==
    CASE entry = "chat" -> Failure(502, "LLM call failed: " \o exc)
      [] entry = "chat_stream" -> Failure(0, "LLM stream failed: " \o exc)
      [] entry = "main" -> Failure(0, "An error occurred: " \o exc)

(***************************************************************************)
(* Sample data: the seeded barbers collection and a second collection with *)
(* a barber working from midnight, a missing weekday and an unavailable    *)
(* barber.                                                                 *)
(***************************************************************************)
Barber(id, name, specialties, working_hours, is_available) ==
    [id |-> id, name |-> name, specialties |-> specialties,
     working_hours |-> working_hours, is_available |-> is_available]

WorkingHours(start, end, is_off) == [start |-> start, end |-> end, is_off |-> is_off]

\* default_hours of seed_barbers
default_hours ==
    [d \in {"monday", "tuesday", "wednesday", "thursday", "friday", "saturday", "sunday"} |->
        IF d = "sunday" THEN WorkingHours(<<0, 0>>, <<0, 0>>, TRUE)
        ELSE IF d = "saturday" THEN WorkingHours(<<10, 0>>, <<15, 0>>, FALSE)
        ELSE WorkingHours(<<9, 0>>, <<17, 0>>, FALSE)]

\* working hours from midnight on two weekdays, one weekday off, the others absent.
night_hours ==
    [d \in {"tuesday", "wednesday", "thursday"} |->
        WorkingHours(<<0, 0>>, <<1, 0>>, d = "thursday")]

B1 == <<"b", "1">>

B2 == <<"b", "2">>

B3 == <<"b", "3">>

B4 == <<"b", "4">>

B5 == <<"b", "5">>

JohnSmith == <<"J", "o", "h", "n", " ", "S", "m", "i", "t", "h">>

MikeJohnson == <<"M", "i", "k", "e", " ", "J", "o", "h", "n", "s", "o", "n">>

SarahDavis == <<"S", "a", "r", "a", "h", " ", "D", "a", "v", "i", "s">>

JohnnyStone == <<"J", "o", "h", "n", "n", "y", " ", "S", "t", "o", "n", "e">>

SamReed == <<"S", "a", "m", " ", "R", "e", "e", "d">>

ModernCuts == <<"m", "o", "d", "e", "r", "n", " ", "c", "u", "t", "s">>

Fades == <<"f", "a", "d", "e", "s">>

ClassicStyles == <<"c", "l", "a", "s", "s", "i", "c", " ", "s", "t", "y", "l", "e", "s">>

BeardTrims == <<"b", "e", "a", "r", "d", " ", "t", "r", "i", "m", "s">>

Styling == <<"s", "t", "y", "l", "i", "n", "g">>

Coloring == <<"c", "o", "l", "o", "r", "i", "n", "g">>

\* the barbers seed_barbers inserts.
SeedBarbers ==
    << Barber(B1, JohnSmith, <<ModernCuts, Fades>>, default_hours, TRUE),
       Barber(B2, MikeJohnson, <<ClassicStyles, BeardTrims>>, default_hours, TRUE),
       Barber(B3, SarahDavis, <<Styling, Coloring>>, default_hours, TRUE) >>

OtherBarbers ==
    << Barber(B4, JohnnyStone, <<Fades>>, night_hours, TRUE),
       Barber(B1, JohnSmith, <<ModernCuts, Fades>>, default_hours, TRUE),
       Barber(B5, SamReed, <<Fades, Styling>>, default_hours, FALSE) >>

Directories == {SeedBarbers, OtherBarbers}

\* the readings of the wall clock: Tuesday 08:00, 09:00 and a fraction, 16:45.
ClockValues == {At(1, 8, 0, 0), At(1, 9, 0, 1), At(1, 16, 45, 0)}

MaxAppts == 2

\* the steps a graph may take (langgraph's default is 25).
RecursionLimit == 3

\* the messages the command-line loop may hold when it starts a turn.
MaxHistory == 2

Procs == {1, 2}

VARIABLES barbers, appointments, now, next_id, pc, checked, last, earlier

\* the conversation turn: the entry point that runs it, the node of the graph it is
\* at, the steps the graph has taken, the messages of the graph state, the call of
\* the tools node under way, what the entry point gave its caller, and the history
\* the command-line loop keeps.
VARIABLES entry, node, step, messages, running, delivered, chat_history

turnvars == <<entry, node, step, messages, running, delivered, chat_history>>

vars == <<barbers, appointments, now, next_id, pc, checked, last, earlier,
          entry, node, step, messages, running, delivered, chat_history>>

NotChecked == [proceed |-> FALSE]

\* no earlier call of check_slot_availability is on record.
NoEarlier == [op |-> "none"]

\* the tools node before its first call: the index of the call to run, the results
\* so far, and the booking checked but not yet inserted.
NotRunning == [i |-> 1, results |-> << >>, checked |-> NotChecked]

\* the entry point has given its caller nothing yet.
NotDelivered == [kind |-> "none"]

Init ==
    /\ barbers \in Directories
    /\ appointments = << >>
    /\ now \in ClockValues
    /\ next_id = 1
    /\ pc = [p \in Procs |-> "idle"]
    /\ checked = [p \in Procs |-> NotChecked]
    /\ last = [op |-> "start"]
    /\ earlier = NoEarlier
    /\ entry = "none"
    /\ node = "idle"
    /\ step = 0
    /\ messages = << >>
    /\ running = NotRunning
    /\ delivered = NotDelivered
    /\ chat_history = << >>

\* the calls of check_slot_availability whose repetition is followed: Tuesday 09:00
\* and 16:45 and Wednesday 09:00 with John Smith, Wednesday 00:00 with Johnny Stone.
Followed ==
    { <<B1, At(1, 9, 0, 0), 30>>, <<B1, At(1, 16, 45, 0), 30>>, <<B1, At(2, 9, 0, 0), 30>>,
      <<B4, At(2, 0, 0, 0), 30>> }

\* the call the clock step leaves behind it: the followed call of
\* check_slot_availability made last, with the reading of the clock it saw.
Behind ==
    IF /\ last.op = "check_slot_availability"
       /\ <<last.barber_id, last.slot_datetime, last.duration>> \in Followed
    THEN [op |-> "check_slot_availability", barber_id |-> last.barber_id,
          slot_datetime |-> last.slot_datetime, duration |-> last.duration,
          result |-> last.result, now |-> now]
    ELSE IF last.op = "tick" THEN earlier
    ELSE NoEarlier

\* the call behind the present one when it has the same arguments.
Repeated(barber_id, slot_datetime, duration) ==
    IF /\ Behind.op = "check_slot_availability"
       /\ Behind.barber_id = barber_id
       /\ Behind.slot_datetime = slot_datetime
       /\ Behind.duration = duration
    THEN Behind
    ELSE NoEarlier

\* the wall clock advances to t.
TickTo(t) ==
    /\ t > now
    /\ now' = t
    /\ last' = [op |-> "tick"]
    /\ earlier' = Behind
    /\ UNCHANGED turnvars
    /\ UNCHANGED <<barbers, appointments, next_id, pc, checked>>

\* the wall clock advances.
Tick == \E t \in ClockValues : TickTo(t)

\* the step of a process on the outcome c of its availability check.
AfterCheck(p, c) ==
    IF c.proceed
    THEN /\ pc' = [pc EXCEPT ![p] = "create"]
         /\ checked' = [checked EXCEPT ![p] = c]
         /\ last' = [op |-> "book_check", proc |-> p]
    ELSE /\ last' = [op |-> "book", proc |-> p, result |-> c.result]
         /\ UNCHANGED <<pc, checked>>

\* book_appointment from its call to the return of its availability check.
BookBegin(p, args) ==
    /\ pc[p] = "idle"
    /\ next_id <= MaxAppts
    /\ AfterCheck(p, BookCheck(barbers, appointments, now, args))
    /\ UNCHANGED <<barbers, appointments, now, next_id>>
    /\ earlier' = NoEarlier
    /\ UNCHANGED turnvars

\* the effect of the try block with outcome c.
Committed(p, c) ==
    /\ appointments' = c.appointments
    /\ next_id' = c.next_id
    /\ last' = [op |-> "book", proc |-> p, result |-> c.result]

\* book_appointment from the construction of the Appointment to its return.
BookCreate(p) ==
    /\ pc[p] = "create"
    /\ \E db_ok \in BOOLEAN : Committed(p, BookCommit(appointments, next_id, checked[p], db_ok))
    /\ pc' = [pc EXCEPT ![p] = "idle"]
    /\ checked' = [checked EXCEPT ![p] = NotChecked]
    /\ UNCHANGED <<barbers, now>>
    /\ earlier' = NoEarlier
    /\ UNCHANGED turnvars

\* the return of a book_appointment run with nothing interleaved.
BookReturns(args, c) ==
    /\ appointments' = c.appointments
    /\ next_id' = c.next_id
    /\ last' = [op |-> "book", proc |-> 0, args |-> args, result |-> c.result]

\* the whole of book_appointment on the outcome c of its availability check; the
\* ids the store hands out are bounded.
BookThrough(args, c) ==
    IF c.proceed
    THEN /\ next_id <= MaxAppts
         /\ \E db_ok \in BOOLEAN :
               BookReturns(args, BookCommit(appointments, next_id, c, db_ok))
    ELSE /\ last' = [op |-> "book", proc |-> 0, args |-> args, result |-> c.result]
         /\ UNCHANGED <<appointments, next_id>>

\* book_appointment run with nothing interleaved.
Book(args) ==
    /\ \A p \in Procs : pc[p] = "idle"
    /\ BookThrough(args, BookCheck(barbers, appointments, now, args))
    /\ UNCHANGED <<barbers, now, pc, checked>>
    /\ earlier' = NoEarlier
    /\ UNCHANGED turnvars

\* the effect of cancel_appointment with outcome c on the appointment it names.
Cancelled(appointment_id, c) ==
    /\ appointments' = c.appointments
    /\ last' = [op |-> "cancel_appointment", appointment_id |-> appointment_id,
                result |-> c.result]

CancelAppointment(appointment_id) ==
    /\ Cancelled(appointment_id, cancel_appointment(appointments, appointment_id))
    /\ UNCHANGED <<barbers, now, next_id, pc, checked>>
    /\ earlier' = NoEarlier
    /\ UNCHANGED turnvars

GetAvailableSlots(barber_id, date, service_duration) ==
    /\ last' = [op |-> "get_available_slots", barber_id |-> barber_id, date |-> date,
                duration |-> service_duration,
                result |-> get_available_slots(barbers, appointments, now, barber_id,
                                               date, service_duration)]
    /\ UNCHANGED <<barbers, appointments, now, next_id, pc, checked>>
    /\ earlier' = NoEarlier
    /\ UNCHANGED turnvars

CheckSlotAvailability(barber_id, slot_datetime, duration) ==
    /\ last' = [op |-> "check_slot_availability", barber_id |-> barber_id,
                slot_datetime |-> slot_datetime, duration |-> duration,
                result |-> check_slot_availability(barbers, appointments, now, barber_id,
                                                   slot_datetime, duration)]
    /\ UNCHANGED <<barbers, appointments, now, next_id, pc, checked>>
    /\ earlier' = Repeated(barber_id, slot_datetime, duration)
    /\ UNCHANGED turnvars

CheckSlots(barber_id, date_str) ==
    /\ last' = [op |-> "check_slots", barber_id |-> barber_id, date_str |-> date_str,
                result |-> check_slots(barbers, appointments, now, barber_id, date_str)]
    /\ UNCHANGED <<barbers, appointments, now, next_id, pc, checked>>
    /\ earlier' = NoEarlier
    /\ UNCHANGED turnvars

SearchBarbers(specialty) ==
    /\ last' = [op |-> "search_barbers", specialty |-> specialty,
                result |-> search_barbers(barbers, specialty)]
    /\ UNCHANGED <<barbers, appointments, now, next_id, pc, checked>>
    /\ earlier' = NoEarlier
    /\ UNCHANGED turnvars

\* a my_appointments that takes the appointments it returns out of the collection.
MyAppointmentsTaking(email) ==
    /\ last' = [op |-> "my_appointments", email |-> email,
                result |-> my_appointments(appointments, email)]
    /\ appointments' = SelectSeq(appointments, LAMBDA a: a.customer_email # email)
    /\ UNCHANGED <<barbers, now, next_id, pc, checked>>
    /\ earlier' = NoEarlier
    /\ UNCHANGED turnvars

MyAppointments(email) ==
    /\ last' = [op |-> "my_appointments", email |-> email,
                result |-> my_appointments(appointments, email)]
    /\ UNCHANGED <<barbers, appointments, now, next_id, pc, checked>>
    /\ earlier' = NoEarlier
    /\ UNCHANGED turnvars

CheckSpecificSlot(barber_name_or_id, datetime_str) ==
    /\ last' = [op |-> "check_specific_slot", barber_name_or_id |-> barber_name_or_id,
                datetime_str |-> datetime_str,
                result |-> check_specific_slot(barbers, appointments, now,
                                               barber_name_or_id, datetime_str)]
    /\ UNCHANGED <<barbers, appointments, now, next_id, pc, checked>>
    /\ earlier' = NoEarlier
    /\ UNCHANGED turnvars

\* what every step of a turn leaves alone or resets outside the turn.
TurnStep(op) ==
    /\ last' = [op |-> op]
    /\ earlier' = NoEarlier
    /\ UNCHANGED <<barbers, now, pc, checked>>

\* an entry point builds the inputs of a turn and invokes the graph, which is entered
\* at the agent node.  The command-line loop sends the history it keeps.
TurnStart(e, message, history) ==
    /\ node = "idle"
    /\ e = "main" => Len(chat_history) < MaxHistory
    /\ entry' = e
    /\ node' = "agent"
    /\ step' = 0
    /\ messages' = IF e = "main"
                   THEN Append(chat_history, HumanMessage(message))
                   ELSE build_langchain_messages(message, history)
    /\ running' = NotRunning
    /\ delivered' = NotDelivered
    /\ TurnStep("turn_start")
    /\ UNCHANGED <<appointments, next_id, chat_history>>

\* the bookings a response asks for.
BookCalls(response) ==
    Len(SelectSeq(response.tool_calls, LAMBDA c: c.name = "book_appointment"))

\* the agent node: call_model returns the response of the chat model, the reducer
\* appends it, and the conditional edge is followed.
CallModel(response) ==
    /\ node = "agent"
    /\ step < RecursionLimit
    /\ next_id + BookCalls(response) <= MaxAppts + 1
    /\ messages' = add_messages(messages, <<response>>)
    /\ node' = tools_condition(messages')
    /\ step' = step + 1
    /\ TurnStep("call_model")
    /\ UNCHANGED <<appointments, next_id, entry, running, delivered, chat_history>>

\* the chat model raises inside call_model: the graph raises, and the entry point
\* answers with its error.
ModelRaises ==
    /\ node = "agent"
    /\ step < RecursionLimit
    /\ node' = "idle"
    /\ delivered' = Raised(entry, "model error")
    /\ TurnStep("model_raises")
    /\ UNCHANGED <<appointments, next_id, entry, step, messages, running, chat_history>>

\* the graph has taken as many steps as the recursion limit and is not at END.
RecursionRaises ==
    /\ node \in {"agent", "tools"}
    /\ step = RecursionLimit
    /\ node' = "idle"
    /\ delivered' = Raised(entry, "recursion limit reached")
    /\ TurnStep("recursion_raises")
    /\ UNCHANGED <<appointments, next_id, entry, step, messages, running, chat_history>>

\* the tools node runs one of the reading tools.
RunTool ==
    /\ node = "tools"
    /\ step < RecursionLimit
    /\ running.i <= Len(Calls(messages))
    /\ Calls(messages)[running.i].name # "book_appointment"
    /\ running' = [running EXCEPT
                      !.i = @ + 1,
                      !.results = Append(@, ToolResult(barbers, appointments, now,
                                                       Calls(messages)[running.i]))]
    /\ TurnStep("run_tool")
    /\ UNCHANGED <<appointments, next_id, entry, node, step, messages, delivered,
                   chat_history>>

\* the step of the tools node on the outcome c of the availability check of a booking.
ToolAfterCheck(c) ==
    IF c.proceed
    THEN running' = [running EXCEPT !.checked = c]
    ELSE running' = [running EXCEPT !.i = @ + 1, !.results = Append(@, c.result)]

\* the tools node runs book_appointment up to the return of its availability check.
ToolBookBegin ==
    /\ node = "tools"
    /\ step < RecursionLimit
    /\ running.i <= Len(Calls(messages))
    /\ Calls(messages)[running.i].name = "book_appointment"
    /\ ~running.checked.proceed
    /\ ToolAfterCheck(BookCheck(barbers, appointments, now, Calls(messages)[running.i].args))
    /\ TurnStep("tool_book_check")
    /\ UNCHANGED <<appointments, next_id, entry, node, step, messages, delivered,
                   chat_history>>

\* the effect of the try block with outcome c inside the tools node.
ToolCommitted(c) ==
    /\ appointments' = c.appointments
    /\ next_id' = c.next_id
    /\ running' = [i |-> running.i + 1, results |-> Append(running.results, c.result),
                   checked |-> NotChecked]

\* the tools node runs book_appointment from the construction of the Appointment on.
ToolBookCreate ==
    /\ node = "tools"
    /\ running.checked.proceed
    /\ \E db_ok \in BOOLEAN :
          ToolCommitted(BookCommit(appointments, next_id, running.checked, db_ok))
    /\ TurnStep("tool_book")
    /\ UNCHANGED <<entry, node, step, messages, delivered, chat_history>>

\* the tools node returns the tool messages of its calls, the reducer appends them,
\* and the edge to the agent node is followed.
ToolsReturn ==
    /\ node = "tools"
    /\ running.i > Len(Calls(messages))
    /\ messages' = add_messages(messages, ToolMessages(Calls(messages), running.results))
    /\ node' = "agent"
    /\ step' = step + 1
    /\ running' = NotRunning
    /\ TurnStep("tools_return")
    /\ UNCHANGED <<appointments, next_id, entry, delivered, chat_history>>

\* a timeout that finds an insert under way and leaves a part of its document.
TimeoutMidInsert ==
    /\ entry = "chat"
    /\ node \in {"agent", "tools"}
    /\ node' = "idle"
    /\ running' = NotRunning
    /\ delivered' = Failure(504, "Request timed out. The agent took too long to respond.")
    /\ appointments' = IF running.checked.proceed
                       THEN Append(appointments,
                                   [id |-> next_id, barber_id |-> running.checked.barber_id])
                       ELSE appointments
    /\ last' = [op |-> "timeout", running |-> running]
    /\ earlier' = NoEarlier
    /\ UNCHANGED <<barbers, now, pc, checked>>
    /\ UNCHANGED <<next_id, entry, step, messages, chat_history>>

\* asyncio.wait_for of /chat runs out while the graph is running: the task of the
\* graph is cancelled where it waits and /chat answers 504.  The step records the call
\* of the tools node that was under way.
Timeout ==
    /\ entry = "chat"
    /\ node \in {"agent", "tools"}
    /\ node' = "idle"
    /\ running' = NotRunning
    /\ delivered' = Failure(504, "Request timed out. The agent took too long to respond.")
    /\ last' = [op |-> "timeout", running |-> running]
    /\ earlier' = NoEarlier
    /\ UNCHANGED <<barbers, now, pc, checked>>
    /\ UNCHANGED <<appointments, next_id, entry, step, messages, chat_history>>

\* the graph has reached END: the entry point takes its reply out of the messages, and
\* the command-line loop adds the user's message and the last message to its history.
Respond ==
    /\ node = "END"
    /\ node' = "idle"
    /\ delivered' = Delivery(entry, messages)
    /\ chat_history' = IF entry = "main"
                       THEN chat_history \o <<messages[InputLen(messages)],
                                              messages[Len(messages)]>>
                       ELSE chat_history
    /\ TurnStep("respond")
    /\ UNCHANGED <<appointments, next_id, entry, step, messages, running>>

\* the resolution of a barber reference by the tools: by id, then by name.
ResolveBarberRef(ref) ==
    /\ last' = [op |-> "resolve_barber", ref |-> ref, result |-> ResolveBarber(barbers, ref)]
    /\ earlier' = NoEarlier
    /\ UNCHANGED <<barbers, appointments, now, next_id, pc, checked>>
    /\ UNCHANGED turnvars

ParseNaturalDatetime(text) ==
    /\ last' = [op |-> "parse_natural_datetime", text |-> text,
                result |-> parse_natural_datetime(now, text)]
    /\ earlier' = NoEarlier
    /\ UNCHANGED <<barbers, appointments, now, next_id, pc, checked>>
    /\ UNCHANGED turnvars

(***************************************************************************)
(* Inputs.                                                                 *)
(***************************************************************************)
Sara == <<"s", "a", "r", "a">>

Nobody == <<"z", "z">>

BookRequest(customer_email, barber_id, barber_name, datetime_str) ==
    [customer_email |-> customer_email, barber_id |-> barber_id,
     barber_name |-> barber_name, datetime_str |-> datetime_str]

\* the booking requests of the concurrent specification: Wednesday 09:00 and 09:15.
BookArgs ==
    { BookRequest(e, b, JohnSmith, d) :
        e \in {"ann@mail.com", "not-an-email"},
        b \in {B1, Sara},
        d \in {Naive(At(2, 9, 0, 0)), Naive(At(2, 9, 15, 0))} }

\* the slots the concurrent specification asks about.
SlotRefs == {B1, B3}

SlotInstants == {At(2, 9, 0, 0), At(2, 9, 15, 0)}

Next ==
    \/ Tick
    \/ \E p \in Procs, args \in BookArgs : BookBegin(p, args)
    \/ \E p \in Procs : BookCreate(p)
    \/ \E b \in SlotRefs, t \in SlotInstants : CheckSlotAvailability(b, t, DefaultDuration)

\* booking processes that interleave between the availability check and the insert.
Spec == Init /\ [][Next]_vars

\* the booking requests of the sequential specifications: Wednesday 00:00 and 09:00,
\* Tuesday 16:30, an unparseable text, an unknown barber.
SeqBookArgs ==
    { BookRequest("ann@mail.com", B1, JohnSmith, Naive(At(2, 9, 0, 0))),
      BookRequest("ann@mail.com", B1, JohnSmith, Naive(At(1, 16, 30, 0))),
      BookRequest("bob@mail.com", B4, JohnnyStone, Naive(At(2, 0, 0, 0))),
      BookRequest("bob@mail.com", B1, JohnSmith, Unparseable),
      BookRequest("bob@mail.com", Nobody, << >>, Naive(At(2, 9, 0, 0))) }

Durations == {30, 45}

\* Monday 10:00; Tuesday 09:00 and a fraction; Wednesday 00:00 with and without a
\* fraction; Thursday, Saturday and Sunday 00:00.
SlotDates ==
    { At(0, 10, 0, 0), At(1, 9, 0, 1), At(2, 0, 0, 0), At(2, 0, 0, 1),
      At(3, 0, 0, 0), At(5, 0, 0, 0), At(6, 0, 0, 0) }

\* the calls of get_available_slots: (barber_id, date, service_duration).
SlotQueries ==
    ({B1, B4} \X SlotDates \X Durations) \cup ({B5, Nobody} \X {At(2, 0, 0, 0)} \X {30})

SlotTexts == {Unparseable, Naive(At(1, 0, 0, 0)), Naive(At(2, 0, 0, 1))}

NextSlots ==
    \/ Tick
    \/ \E args \in SeqBookArgs : Book(args)
    \/ \E q \in SlotQueries : GetAvailableSlots(q[1], q[2], q[3])
    \/ \E b \in {Sara, B4}, d \in SlotTexts : CheckSlots(b, d)

\* bookings one at a time, and the availability engine.
SpecSlots == Init /\ [][NextSlots]_vars

\* Monday 10:00 and 18:00; Tuesday 09:00, 16:30 and 16:45; Wednesday 00:00, 09:00 and
\* 09:15; Thursday 00:00; Sunday 10:00.
CheckInstants ==
    { At(0, 10, 0, 0), At(0, 18, 0, 0), At(1, 9, 0, 0), At(1, 16, 30, 0), At(1, 16, 45, 0),
      At(2, 0, 0, 0), At(2, 9, 0, 0), At(2, 9, 15, 0), At(3, 0, 0, 0), At(6, 10, 0, 0) }

\* the calls of check_slot_availability: (barber_id, slot_datetime, duration).
CheckQueries ==
    ({B1} \X CheckInstants \X Durations)
       \cup ({B4, B5, Nobody}
                \X {At(0, 10, 0, 0), At(1, 0, 0, 0), At(2, 0, 0, 0), At(3, 0, 0, 0)} \X {30})

CheckTexts == {Unparseable, Aware(At(2, 9, 0, 0)), Naive(At(1, 9, 0, 0))}

NextCheck ==
    \/ Tick
    \/ \E args \in SeqBookArgs : Book(args)
    \/ \E q \in CheckQueries : CheckSlotAvailability(q[1], q[2], q[3])
    \/ \E b \in {Sara, B4}, d \in CheckTexts : CheckSpecificSlot(b, d)

\* bookings one at a time, and the conflict checker.
SpecCheck == Init /\ [][NextCheck]_vars

\* the specialties asked for: none, "fades", "STY", and one no barber has.
SpecialtyTexts == {<< >>, Fades, <<"S", "T", "Y">>, Nobody}

Customers == {"ann@mail.com", "bob@mail.com", "eve@mail.com"}

\* the barbers the tools are asked about: a first name, and the ids of Johnny Stone
\* and of Sam Reed, who is not available.
ToolRefs == {Sara, B4, B5}

NextTools ==
    \/ Tick
    \/ \E args \in SeqBookArgs : Book(args)
    \/ \E sp \in SpecialtyTexts : SearchBarbers(sp)
    \/ \E b \in ToolRefs, d \in SlotTexts : CheckSlots(b, d)
    \/ \E b \in ToolRefs, d \in CheckTexts : CheckSpecificSlot(b, d)
    \/ \E e \in Customers : MyAppointments(e)

\* the five tools, one call at a time.
SpecTools == Init /\ [][NextTools]_vars

\* the readings of the wall clock of the store specification: Tuesday 08:00 and
\* Wednesday 08:00.
StoreClock == {At(1, 8, 0, 0), At(2, 8, 0, 0)}

\* the booking requests of the store specification: "sara" on Wednesday at 18:00;
\* John Smith by id under another barber's name on Wednesday 09:00, with a malformed
\* email at 09:00, and at 09:15; Johnny Stone at both of his Wednesday slots; John
\* Smith on Tuesday 16:30.
StoreBookArgs ==
    { BookRequest("ann@mail.com", Sara, SarahDavis, Naive(At(2, 18, 0, 0))),
      BookRequest("bob@mail.com", B1, MikeJohnson, Naive(At(2, 9, 0, 0))),
      BookRequest("not-an-email", B1, JohnSmith, Naive(At(2, 9, 0, 0))),
      BookRequest("bob@mail.com", B1, JohnSmith, Naive(At(2, 9, 15, 0))),
      BookRequest("ann@mail.com", B4, JohnnyStone, Naive(At(2, 0, 0, 0))),
      BookRequest("bob@mail.com", B4, JohnnyStone, Naive(At(2, 0, 30, 0))),
      BookRequest("ann@mail.com", B1, JohnSmith, Naive(At(1, 16, 30, 0))) }

InitStore == Init /\ now = At(1, 8, 0, 0)

NextStore ==
    \/ \E t \in StoreClock : TickTo(t)
    \/ \E args \in StoreBookArgs : Book(args)
    \/ \E id \in 1..MaxAppts : CancelAppointment(id)
    \/ CheckSlots(B4, Naive(At(2, 0, 0, 0)))
    \/ CheckSpecificSlot(Sara, Naive(At(2, 9, 0, 0)))
    \/ SearchBarbers(Fades)
    \/ MyAppointments("ann@mail.com")

\* bookings one at a time, cancellations, and the tools.
SpecStore == InitStore /\ [][NextStore]_vars

JohnSmithson == <<"J", "o", "h", "n", " ", "S", "m", "i", "t", "h", "s", "o", "n">>

B6 == <<"b", "6">>

\* a collection in which the name of one barber is the beginning of another's.
Namesakes ==
    << Barber(B6, JohnSmithson, <<Fades>>, default_hours, TRUE),
       Barber(B1, JohnSmith, <<ModernCuts, Fades>>, default_hours, TRUE),
       Barber(B5, SamReed, <<Fades, Styling>>, default_hours, FALSE) >>

\* the references resolved: ids, full names in either case, first and last names,
\* words in another order, misspellings, a blank and an unknown name.
BarberRefs ==
    { B1, B4, B5, Nobody, JohnSmith, Lower(JohnSmith), SamReed, Sara,
      <<"J", "O", "H", "N">>, <<"s", "m", "i", "t", "h">>, <<"j", "o", "h", "n", "n", "y">>,
      <<"s", "t", "o", "n", "e", " ", "j", "o", "h", "n">>,
      <<"s", "m", "i", "t", "h", "s", " ", "j", "o">>,
      <<"J", "o", "n", " ", "S", "m", "i", "t", "h">>,
      <<"J", "h", "o", "n", " ", "S", "m", "y", "t", "h">>, <<" ">> }

\* the texts parsed: one the parser rejects; Monday 09:00; Tuesday 08:00, 09:00 and a
\* fraction, 16:45 and 23:59; Wednesday 09:00; and Wednesday 09:00 and Tuesday 08:00
\* with a time zone.
DatetimeTexts ==
    { Unparseable, Naive(At(0, 9, 0, 0)), Naive(At(1, 8, 0, 0)), Naive(At(1, 9, 0, 0)),
      Naive(At(1, 9, 0, 1)), Naive(At(1, 16, 45, 0)), Naive(At(1, 23, 59, 0)),
      Naive(At(2, 9, 0, 0)), Aware(At(2, 9, 0, 0)), Aware(At(1, 8, 0, 0)) }

InitResolve ==
    /\ barbers \in Directories \cup {Namesakes}
    /\ appointments = << >>
    /\ now \in ClockValues
    /\ next_id = 1
    /\ pc = [p \in Procs |-> "idle"]
    /\ checked = [p \in Procs |-> NotChecked]
    /\ last = [op |-> "start"]
    /\ earlier = NoEarlier
    /\ entry = "none"
    /\ node = "idle"
    /\ step = 0
    /\ messages = << >>
    /\ running = NotRunning
    /\ delivered = NotDelivered
    /\ chat_history = << >>

NextResolve ==
    \/ Tick
    \/ \E ref \in BarberRefs : ResolveBarberRef(ref)
    \/ \E text \in DatetimeTexts : ParseNaturalDatetime(text)

\* the resolution of barber references and of datetime texts.
SpecResolve == InitResolve /\ [][NextResolve]_vars

\* the entry points that run a turn: /chat, /chat/stream and the command-line loop.
Entries == {"chat", "chat_stream", "main"}

Hi == <<"H", "i">>

Hello == <<"H", "e", "l", "l", "o">>

Ok == <<"O", "k">>

HistoryItem(role, content) == [role |-> role, content |-> content]

\* the histories a request carries: none, and one exchange with a system item.
Histories ==
    { << >>,
      <<HistoryItem("system", Ok), HistoryItem("user", Hi), HistoryItem("assistant", Hello)>> }

ToolCall(name, args) == [name |-> name, args |-> args]

\* a booking of Wednesday 09:00 with John Smith.
BookWednesday ==
    ToolCall("book_appointment",
             BookRequest("ann@mail.com", B1, JohnSmith, Naive(At(2, 9, 0, 0))))

\* a booking whose date cannot be parsed.
BookNoDate ==
    ToolCall("book_appointment", BookRequest("bob@mail.com", B1, JohnSmith, Unparseable))

ListAnn == ToolCall("my_appointments", [email |-> "ann@mail.com"])

\* the responses of the chat model: a reply that is empty, blank or a text, and a
\* request for one or two tools with or without a text.
Responses ==
    { AIMessage(c, << >>) : c \in {<< >>, <<" ">>, Ok} }
       \cup { AIMessage(c, calls) : c \in {<< >>, Ok},
                                    calls \in {<<BookWednesday>>, <<BookNoDate, ListAnn>>} }

InitTurn == Init /\ barbers = SeedBarbers /\ now = At(1, 8, 0, 0)

NextTurn ==
    \/ \E e \in Entries, history \in Histories : TurnStart(e, Hi, history)
    \/ \E response \in Responses : CallModel(response)
    \/ ModelRaises
    \/ RecursionRaises
    \/ RunTool
    \/ ToolBookBegin
    \/ ToolBookCreate
    \/ ToolsReturn
    \/ Timeout
    \/ Respond

\* conversation turns, one at a time, through the three entry points.
SpecTurn == InitTurn /\ [][NextTurn]_vars

\* a step of a turn under way: the event loop runs the task of the turn, and a call of
\* the chat model returns or raises.
TurnProgress ==
    \/ \E response \in Responses : CallModel(response)
    \/ ModelRaises
    \/ RecursionRaises
    \/ RunTool
    \/ ToolBookBegin
    \/ ToolBookCreate
    \/ ToolsReturn
    \/ Respond

\* conversation turns whose task is not left waiting for ever.
SpecTurnFair == SpecTurn /\ WF_vars(TurnProgress)

(***************************************************************************)
(* Properties of booking.                                                  *)
(***************************************************************************)
\* half-open overlap of two appointments of one barber, both confirmed.
DoubleBooks(a, b) ==
    /\ a.barber_id = b.barber_id
    /\ a.status = "confirmed" /\ b.status = "confirmed"
    /\ a.appointment_datetime < ApptEnd(b)
    /\ ApptEnd(a) > b.appointment_datetime

DoubleBooked(appts) ==
    \E i, j \in 1..Len(appts) : i < j /\ DoubleBooks(appts[i], appts[j])

\* the store holds a confirmed appointment overlapping the checked booking c.
Overtaken(c) ==
    \E i \in 1..Len(appointments) :
       DoubleBooks(appointments[i],
                   Appointment(NoId, c.customer_email, c.barber_id, c.barber_name, c.dt))

\* the store after the insert of the checked booking c, when the database accepts it.
Inserted(c) == BookCommit(appointments, next_id, c, TRUE)

\* C1: a book operation that has passed its availability check, and has since been
\* overtaken by the insert of an overlapping appointment for the same barber, still
\* inserts when the database accepts the write: nothing locks the path from check
\* to insert and the store refuses no overlapping appointment, so the result is a
\* store with two overlapping confirmed appointments for one barber.
C1_RaceInserts ==
    \A p \in Procs :
       (pc[p] = "create" /\ checked[p].customer_email \in ValidEmails /\ Overtaken(checked[p]))
          => /\ Inserted(checked[p]).result.success
             /\ Len(Inserted(checked[p]).appointments) = Len(appointments) + 1
             /\ DoubleBooked(Inserted(checked[p]).appointments)

\* two overlapping confirmed appointments of one barber are in the store.
C1_DoubleBooking == DoubleBooked(appointments)

\* the checked booking c is what book_appointment obtains from an available verdict
\* of check_slot_availability on the present store, for c's barber and instant and
\* a duration of 30 minutes.
OwnCheckPassed(c) ==
    /\ c.duration = 30
    /\ c.availability.available
    /\ c.availability = check_slot_availability(barbers, appointments, now, c.barber_id,
                                                c.dt, 30)

\* the step inserts the booking that process p holds checked.
InsertsChecked(p) ==
    /\ pc[p] = "create"
    /\ checked[p].availability.available
    /\ checked[p].duration = 30
    /\ Len(appointments') = Len(appointments) + 1
    /\ SubSeq(appointments', 1, Len(appointments)) = appointments
    /\ appointments'[Len(appointments')].barber_id = checked[p].barber_id
    /\ appointments'[Len(appointments')].appointment_datetime = checked[p].dt
    /\ appointments'[Len(appointments')].duration_minutes = 30

\* C2: the appointments collection changes only by the insert of a booking whose own
\* call of check_slot_availability (resolved barber, parsed instant, duration 30) has
\* returned available before; a book_appointment that fails, whether its check said
\* unavailable or the datetime or the barber did not resolve, leaves the collection
\* as it was.
C2_InsertOnlyAfterCheck ==
    [][ /\ \A p \in Procs :
             (pc[p] = "idle" /\ pc'[p] = "create")
                => OwnCheckPassed(checked'[p]) /\ appointments' = appointments
        /\ (appointments' # appointments) => \E p \in Procs : InsertsChecked(p)
        /\ (last'.op = "book" /\ ~last'.result.success) => appointments' = appointments
      ]_vars

\* a booking has been refused for a conflict with an appointment inserted before.
C2_Refused ==
    /\ last.op = "book"
    /\ ~last.result.success
    /\ last.result.error = "Time slot conflicts with existing appointment"
    /\ Len(appointments) > 0

C4_OneConfirmed ==
    [][ (last'.op = "book" /\ last'.result.success)
        => /\ Len(appointments') = Len(appointments) + 1
           /\ SubSeq(appointments', 1, Len(appointments)) = appointments
           /\ appointments'[Len(appointments')].status = "confirmed"
           /\ \A i \in 1..Len(appointments) :
                 appointments[i].id # appointments'[Len(appointments')].id
           /\ last'.result.appointment_id = appointments'[Len(appointments')].id
           /\ last'.result.confirmation_number = last'.result.appointment_id
      ]_vars

\* a second booking has succeeded and returned the id of the newest appointment.
C4_Booked ==
    /\ last.op = "book"
    /\ last.result.success
    /\ Len(appointments) = 2
    /\ last.result.appointment_id = appointments[2].id

(***************************************************************************)
(* Properties of the availability engine.                                  *)
(***************************************************************************)
\* the barber document with the given id.
Known(barber_id) == \E i \in 1..Len(barbers) : barbers[i].id = barber_id

TheBarber(barber_id) == barbers[CHOOSE i \in 1..Len(barbers) : barbers[i].id = barber_id]

\* the barber has a working-hours entry for the weekday of t that is not marked off.
WorksOn(barber_id, t) ==
    /\ Known(barber_id)
    /\ get_day_name(t) \in DOMAIN TheBarber(barber_id).working_hours
    /\ ~TheBarber(barber_id).working_hours[get_day_name(t)].is_off

\* the opening and the closing instant of the barber's work window on the day of t.
OpenTime(barber_id, t) ==
    At(DateOf(t), TheBarber(barber_id).working_hours[get_day_name(t)].start[1],
       TheBarber(barber_id).working_hours[get_day_name(t)].start[2], 0)

CloseTime(barber_id, t) ==
    At(DateOf(t), TheBarber(barber_id).working_hours[get_day_name(t)].end[1],
       TheBarber(barber_id).working_hours[get_day_name(t)].end[2], 0)

\* a confirmed appointment of the barber in the store overlaps [start, start + duration).
Booked(barber_id, start, duration) ==
    \E j \in 1..Len(appointments) :
       /\ appointments[j].barber_id = barber_id
       /\ appointments[j].status = "confirmed"
       /\ appointments[j].appointment_datetime < start + Minutes(duration)
       /\ ApptEnd(appointments[j]) > start

\* C5: no slot that get_available_slots returns overlaps a confirmed appointment of
\* the barber that is in the store when the call is made.
C5_NoSlotOverBooked ==
    (last.op = "get_available_slots")
       => \A i \in 1..Len(last.result) :
             ~Booked(last.barber_id, last.result[i].time, last.duration)

\* C6: for a barber whose weekday entry for the date is missing or marked off,
\* get_available_slots returns the empty sequence whatever the store holds.
C6_ClosedDayEmpty ==
    (last.op = "get_available_slots" /\ Known(last.barber_id)
                                      /\ ~WorksOn(last.barber_id, last.date))
       => last.result = << >>

\* no slots on a closed day of a barber who has an appointment in the store.
C6_ClosedWithAppointments ==
    /\ last.op = "get_available_slots"
    /\ Known(last.barber_id)
    /\ ~WorksOn(last.barber_id, last.date)
    /\ last.result = << >>
    /\ \E j \in 1..Len(appointments) : appointments[j].barber_id = last.barber_id

\* C7: every slot that get_available_slots returns starts at or after the opening
\* time, and ends, start + duration, at or before the closing time of the barber's
\* work window on the date.
C7_SlotsInsideWindow ==
    (last.op = "get_available_slots")
       => \A i \in 1..Len(last.result) :
             /\ WorksOn(last.barber_id, last.date)
             /\ last.result[i].time >= OpenTime(last.barber_id, last.date)
             /\ last.result[i].time + Minutes(last.duration)
                   <= CloseTime(last.barber_id, last.date)

\* slots of 45 minutes, the last of which could not start one stride later.
C7_LastSlotFits ==
    /\ last.op = "get_available_slots"
    /\ last.duration = 45
    /\ Len(last.result) > 0
    /\ last.result[Len(last.result)].time + Minutes(30) + Minutes(45)
          > CloseTime(last.barber_id, last.date)

\* the barber has no appointment on the day of t.
FreeDay(barber_id, t) ==
    \A j \in 1..Len(appointments) :
       appointments[j].barber_id = barber_id
          => DateOf(appointments[j].appointment_datetime) # DateOf(t)

\* the numbers k with open + 30k + duration <= close.
Strides(barber_id, t, duration) ==
    { k \in 0..47 : OpenTime(barber_id, t) + Minutes(30 * k) + Minutes(duration)
                       <= CloseTime(barber_id, t) }

\* C8: for a barber with no appointment on a date that is not today, on a working
\* day, get_available_slots returns exactly the starts open + 30k minutes with
\* open + 30k + duration <= close, in ascending order, for any duration; for
\* 09:00-17:00 and 30 minutes these are the 16 slots from 09:00 to 16:30.
C8_FullDay ==
    ( /\ last.op = "get_available_slots"
      /\ WorksOn(last.barber_id, last.date)
      /\ DateOf(last.date) # DateOf(now)
      /\ FreeDay(last.barber_id, last.date) )
    => /\ Len(last.result) = Cardinality(Strides(last.barber_id, last.date, last.duration))
       /\ \A i \in 1..Len(last.result) :
             /\ (i - 1) \in Strides(last.barber_id, last.date, last.duration)
             /\ last.result[i].time
                   = OpenTime(last.barber_id, last.date) + Minutes(30 * (i - 1))
       /\ ( /\ OpenTime(last.barber_id, last.date) = At(DateOf(last.date), 9, 0, 0)
            /\ CloseTime(last.barber_id, last.date) = At(DateOf(last.date), 17, 0, 0)
            /\ last.duration = 30 )
          => /\ Len(last.result) = 16
             /\ last.result[1].time = At(DateOf(last.date), 9, 0, 0)
             /\ last.result[16].time = At(DateOf(last.date), 16, 30, 0)

\* the 15 slots of 45 minutes of a free 09:00-17:00 day that is not today, with
\* appointments on other days in the store.
C8_FreeDayListed ==
    /\ last.op = "get_available_slots"
    /\ WorksOn(last.barber_id, last.date)
    /\ DateOf(last.date) # DateOf(now)
    /\ FreeDay(last.barber_id, last.date)
    /\ last.duration = 45
    /\ Len(last.result) = 15
    /\ Len(appointments) > 0

(***************************************************************************)
(* Properties of the conflict checker.                                     *)
(***************************************************************************)
\* the interval [t, t + duration) lies inside the barber's work window on the day of t.
InsideWindow(barber_id, t, duration) ==
    /\ t >= OpenTime(barber_id, t)
    /\ t + Minutes(duration) <= CloseTime(barber_id, t)

\* the barber exists, is flagged available, works on the weekday of t, and the
\* interval lies inside the work window.
Bookable(barber_id, t, duration) ==
    /\ Known(barber_id)
    /\ TheBarber(barber_id).is_available
    /\ WorksOn(barber_id, t)
    /\ InsideWindow(barber_id, t, duration)

\* every alternative of the verdict starts strictly after now.
AlternativesAhead(verdict) ==
    \A i \in 1..Len(verdict.alternatives) : verdict.alternatives[i].time > now

\* C9 as stated: check_slot_availability returns available = false with the reason
\* "in the past" for every instant strictly before now, and every alternative of
\* that verdict starts strictly after now.
C9_PastAlways ==
    (last.op = "check_slot_availability" /\ last.slot_datetime < now)
       => /\ ~last.result.available
          /\ last.result.reason = "Time slot is in the past"
          /\ AlternativesAhead(last.result)

\* C9: for an instant strictly before now check_slot_availability returns
\* available = false, and every alternative it returns starts strictly after now;
\* the reason is "in the past" when the barber exists, is flagged available, works
\* on that weekday and the interval lies inside the work window, and is the reason
\* of the earlier failing check otherwise.
C9_PastWhenBookable ==
    (last.op = "check_slot_availability" /\ last.slot_datetime < now)
       => /\ ~last.result.available
          /\ AlternativesAhead(last.result)
          /\ (last.result.reason = "Time slot is in the past")
                <=> Bookable(last.barber_id, last.slot_datetime, last.duration)

\* an instant of today before now, inside the window: in the past, with alternatives.
C9_PastToday ==
    /\ last.op = "check_slot_availability"
    /\ last.slot_datetime < now
    /\ DateOf(last.slot_datetime) = DateOf(now)
    /\ last.result.reason = "Time slot is in the past"
    /\ last.result.alternatives # << >>

\* the reason of the first check that fails, in the order: barber not found, barber
\* not available, weekday absent, weekday off, interval outside the work window,
\* instant before now, overlap with a confirmed appointment.
FirstFailing(barber_id, t, duration) ==
    IF ~Known(barber_id) THEN "Barber not found"
    ELSE IF ~TheBarber(barber_id).is_available THEN "Barber is not available"
    ELSE IF get_day_name(t) \notin DOMAIN TheBarber(barber_id).working_hours
    THEN "Barber does not work on " \o get_day_name(t)
    ELSE IF ~WorksOn(barber_id, t) THEN "Barber is off on " \o get_day_name(t)
    ELSE IF ~InsideWindow(barber_id, t, duration) THEN "Time slot is outside working hours"
    ELSE IF t < now THEN "Time slot is in the past"
    ELSE IF Booked(barber_id, t, duration)
    THEN "Time slot conflicts with existing appointment"
    ELSE "Slot is available"

\* C10: the verdict of check_slot_availability carries the reason of the first
\* failing check in the fixed order, and it is available = true, with no
\* alternatives, exactly when no check fails.
C10_FirstFailingCheck ==
    (last.op = "check_slot_availability")
       => /\ last.result.reason
                = FirstFailing(last.barber_id, last.slot_datetime, last.duration)
          /\ last.result.available
                <=> ( /\ Bookable(last.barber_id, last.slot_datetime, last.duration)
                      /\ last.slot_datetime >= now
                      /\ ~Booked(last.barber_id, last.slot_datetime, last.duration) )
          /\ last.result.available => last.result.alternatives = << >>

\* an instant before now and outside the work window: the window decides.
C10_WindowBeforeClock ==
    /\ last.op = "check_slot_availability"
    /\ last.slot_datetime < now
    /\ Known(last.barber_id)
    /\ TheBarber(last.barber_id).is_available
    /\ WorksOn(last.barber_id, last.slot_datetime)
    /\ ~InsideWindow(last.barber_id, last.slot_datetime, last.duration)
    /\ last.result.reason = "Time slot is outside working hours"

(***************************************************************************)
(* Properties of repeated calls.                                           *)
(***************************************************************************)
\* the present call of check_slot_availability repeats an earlier one: the same
\* barber, instant and duration, and only steps of the clock between the two.
Rechecked == last.op = "check_slot_availability" /\ earlier.op = "check_slot_availability"

SameVerdict ==
    /\ last.result.available = earlier.result.available
    /\ last.result.reason = earlier.result.reason

Ascending(alternatives) ==
    \A i \in 1..Len(alternatives) : \A j \in 1..Len(alternatives) :
       i < j => alternatives[i].time < alternatives[j].time

\* date and time x = <<date, hour, minute, microsecond>> comes before y.
IsoBefore(x, y) ==
    \E k \in 1..4 : x[k] < y[k] /\ \A h \in 1..(k - 1) : x[h] = y[h]

\* the "datetime" entries of a tool's alternatives ascend.
AscendingIso(alternatives) ==
    \A i \in 1..Len(alternatives) : \A j \in 1..Len(alternatives) :
       i < j => IsoBefore(alternatives[i].datetime, alternatives[j].datetime)

\* C12: the alternatives of every verdict of check_slot_availability, and of every
\* failure result of book_appointment and of check_specific_slot, are at most 5 and
\* in ascending chronological order.
C12_AlternativesCutAndSorted ==
    /\ (last.op = "check_slot_availability")
          => Len(last.result.alternatives) <= 5 /\ Ascending(last.result.alternatives)
    /\ (last.op = "book" /\ ~last.result.success)
          => Len(last.result.alternatives) <= 5 /\ AscendingIso(last.result.alternatives)
    /\ (last.op = "check_specific_slot" /\ ~last.result.available)
          => Len(last.result.alternatives) <= 5 /\ AscendingIso(last.result.alternatives)

\* a booking refused for a conflict, with five alternatives of a day that has more.
C12_FiveOffered ==
    /\ last.op = "book"
    /\ ~last.result.success
    /\ last.result.error = "Time slot conflicts with existing appointment"
    /\ Len(last.result.alternatives) = 5

(***************************************************************************)
(* Properties of the tools.                                                *)
(***************************************************************************)
ReadTools == {"search_barbers", "check_slots", "check_specific_slot", "my_appointments"}

\* C13: search_barbers, check_slots, check_specific_slot and my_appointments leave
\* the appointments and the barbers collection as they are, and no step, of
\* book_appointment included, changes the barbers collection.
C13_OnlyBookWrites ==
    [][ /\ (last'.op \in ReadTools) => (appointments' = appointments /\ barbers' = barbers)
        /\ barbers' = barbers
      ]_vars

\* my_appointments has returned the two appointments of a customer, the later booked
\* one first.
C13_Listed ==
    /\ last.op = "my_appointments"
    /\ Len(last.result) = 2
    /\ Len(appointments) = 2
    /\ last.result[1] = appointments[2]

(***************************************************************************)
(* Properties of the conversation turn.                                    *)
(***************************************************************************)
\* s is the beginning of t.
IsPrefix(s, t) == Len(s) <= Len(t) /\ SubSeq(t, 1, Len(s)) = s

\* the messages from the i-th on are tool messages, one for each call, in their order.
ToolResultsOf(calls, msgs, i) ==
    /\ Len(msgs) = i - 1 + Len(calls)
    /\ \A k \in 1..Len(calls) :
          msgs[i - 1 + k].type = "tool" /\ msgs[i - 1 + k].name = calls[k].name

\* a turn is running: the graph is at one of its nodes.
Reasoning == node = "agent"

Acting == node = "tools"

\* C14: the graph of a turn is at one of two nodes, the agent node (Reasoning) and the
\* tools node (Acting).  A turn enters the graph at the agent node.  A step of the
\* graph out of the agent node appends the agent's message and leads to the tools
\* node exactly when that message carries tool calls, and to END otherwise.  A step
\* of the graph out of the tools node leads to the agent node and appends one tool
\* message for each call of the agent's message, in the order of the calls.  As long
\* as the turn lasts, the messages before a step are the beginning of the messages
\* after it.
C14_TwoNodeLoop ==
    [][ /\ node \in {"idle", "agent", "tools", "END"}
        /\ (node = "idle" /\ node' # "idle") => Reasoning'
        /\ (Reasoning /\ node' \notin {"agent", "idle"}) =>
              /\ Len(messages') = Len(messages) + 1
              /\ messages'[Len(messages')].type = "ai"
              /\ Acting' <=> messages'[Len(messages')].tool_calls # << >>
              /\ node' = "END" <=> messages'[Len(messages')].tool_calls = << >>
        /\ (Acting /\ node' \notin {"tools", "idle"}) =>
              /\ Reasoning'
              /\ ToolResultsOf(Calls(messages), messages', Len(messages) + 1)
        /\ node # "idle" => IsPrefix(messages, messages')
      ]_vars

\* the tools node has gone back to the agent node with the results of two calls.
C14_TwoResultsAppended ==
    /\ Reasoning
    /\ last.op = "tools_return"
    /\ Len(messages) >= 4
    /\ messages[Len(messages)].type = "tool"
    /\ messages[Len(messages) - 1].type = "tool"
    /\ Len(messages[Len(messages) - 2].tool_calls) = 2

\* the turn is over.
TurnOver == node = "idle" /\ entry # "none"

\* the entry point gave its caller words: a reply that is not blank, or an error with
\* its detail.
GaveWords ==
    \/ delivered.kind = "reply" /\ Strip(delivered.text) # << >>
    \/ delivered.kind = "error"

\* C15: every turn that has entered the graph is eventually over with words given to
\* the caller: a reply that is not blank or, at the least, the detail of an error.
C15_TurnEndsWithWords == (node = "agent") ~> (TurnOver /\ GaveWords)

\* the graph reached END and the entry point has answered.
Answered == TurnOver /\ last.op = "respond"

\* the message the agent node ended the turn with.
TerminalMessage == messages[Len(messages)]

\* C16: whenever the graph has reached END with a terminal message of empty content,
\* what the entry point gives its caller is the apology, for each of the entry points
\* /chat, /chat/stream and the command-line loop.
C16_EmptyReplyApologized ==
    (Answered /\ TerminalMessage.content = << >>) => delivered = Reply(Apology)

\* the document of an appointment is whole: every field of the model, status confirmed.
Complete(a) ==
    /\ DOMAIN a = {"id", "customer_email", "barber_id", "barber_name",
                   "appointment_datetime", "duration_minutes", "status"}
    /\ a.status = "confirmed"

\* the bookings the agent asked for in the turn.
Attempted(msgs) ==
    UNION { { msgs[i].tool_calls[k].args :
                k \in { n \in 1..Len(msgs[i].tool_calls) :
                          msgs[i].tool_calls[n].name = "book_appointment" } } :
            i \in (InputLen(msgs) + 1)..Len(msgs) }

\* the appointments in the store that a booking with these arguments made.
MadeFor(args) ==
    { i \in 1..Len(appointments) :
        /\ appointments[i].customer_email = args.customer_email
        /\ parse_natural_datetime(now, args.datetime_str) =
              Some(appointments[i].appointment_datetime) }

\* C17: when the timeout of /chat has run out at any point of a turn, the turn is over
\* with the error 504 (gateway timeout, a status a caller retries), every document of
\* the store is a whole confirmed appointment, and each booking the agent asked for
\* in the turn has one whole appointment in the store or none.
C17_TimeoutWholeOrNone ==
    last.op = "timeout" =>
        /\ TurnOver
        /\ delivered.kind = "error" /\ delivered.status = 504
        /\ \A i \in 1..Len(appointments) : Complete(appointments[i])
        /\ \A args \in Attempted(messages) : Cardinality(MadeFor(args)) <= 1

\* the timeout ran out after the insert of a booking and before the tools node
\* returned its result.
C17_TimeoutAfterInsert ==
    /\ last.op = "timeout"
    /\ last.running.i = 2
    /\ last.running.results[1].success
    /\ \E args \in Attempted(messages) : Cardinality(MadeFor(args)) = 1

(***************************************************************************)
(* Properties of the resolution of barbers.                                *)
(***************************************************************************)
\* a resolution that found a barber found one that is available.
Eligible(barber) == barber # None => barber.is_available

\* C18: the barber that check_slots and check_specific_slot resolve their reference
\* to, by id or by name, is never one whose is_available is false.
C18_ResolvedAreAvailable ==
    /\ last.op = "check_slots" => Eligible(ResolveBarber(barbers, last.barber_id))
    /\ last.op = "check_specific_slot" =>
          Eligible(ResolveBarber(barbers, last.barber_name_or_id))

\* the documents of the barbers collection.
Docs == { barbers[i] : i \in 1..Len(barbers) }

\* the reference as the name stages compare it.
Query(ref) == Lower(Strip(ref))

ById(ref) == { b \in Docs : b.id = ref }

\* the available barbers whose name is the reference, ignoring case.
Exactly(ref) == { b \in Docs : b.is_available /\ Lower(b.name) = Query(ref) }

\* the available barbers whose name holds the reference, ignoring case.
Partly(ref) == { b \in Docs : b.is_available /\ Contains(Lower(b.name), Query(ref)) }

\* the available barbers whose name holds a word of the reference, and one of whose
\* words holds or lies in a word of the reference.
ByWord(ref) ==
    { b \in Docs :
        /\ b.is_available
        /\ \E w \in 1..Len(Split(Query(ref))) : Contains(Lower(b.name), Split(Query(ref))[w])
        /\ WordTest(Split(Query(ref)), Split(Lower(b.name))) }

\* the fraction r is at most the fraction q.
AtMost(r, q) == r[1] * q[2] <= q[1] * r[2]

\* the available barbers whose name is as similar to the reference as any, and at
\* least 0.6 similar.
Closest(ref) ==
    { b \in Docs :
        /\ b.is_available
        /\ AboveCutoff(Ratio(ref, b.name))
        /\ \A c \in Docs : c.is_available => AtMost(Ratio(ref, c.name), Ratio(ref, b.name)) }

\* the barbers of the first stage that has any, in the order id, exact name, substring,
\* words, similarity; a blank reference goes through no name stage.
FirstStage(ref) ==
    IF ById(ref) # {} THEN ById(ref)
    ELSE IF Strip(ref) = << >> THEN {}
    ELSE IF Exactly(ref) # {} THEN Exactly(ref)
    ELSE IF Partly(ref) # {} THEN Partly(ref)
    ELSE IF ByWord(ref) # {} THEN ByWord(ref)
    ELSE Closest(ref)

\* C19: a reference resolves to a barber of the first stage that matches any, in the
\* order id, exact name, substring, words, similarity, and to no barber when no stage
\* matches; "John Smith" in either case resolves to the available John Smith, whatever
\* other barbers the later stages match.
C19_FirstStageDecides ==
    last.op = "resolve_barber" =>
        /\ IF FirstStage(last.ref) = {} THEN last.result = None
           ELSE last.result \in FirstStage(last.ref)
        /\ (Query(last.ref) = Lower(JohnSmith) /\ Exactly(last.ref) # {}) =>
              last.result.name = JohnSmith

\* "john smith" has been resolved to John Smith where the substring stage would have
\* found John Smithson first.
C19_ExactBeforeSubstring ==
    /\ last.op = "resolve_barber"
    /\ last.ref = Lower(JohnSmith)
    /\ last.result # None
    /\ last.result.name = JohnSmith
    /\ \E b \in Partly(last.ref) : b.name = JohnSmithson

(***************************************************************************)
(* Properties of the resolution of datetime texts.                         *)
(***************************************************************************)
\* C20: parse_natural_datetime gives nothing for a text the parser rejects; for every
\* other text it gives the parsed instant moved one day on when that instant is on
\* the date of now and before now, and the parsed instant itself otherwise.
C20_RolledOnlyToday ==
    last.op = "parse_natural_datetime" =>
        IF last.text.parse = "error" THEN last.result = None
        ELSE IF DateOf(last.text.dt) = DateOf(now) /\ last.text.dt < now
        THEN last.result = Some(last.text.dt + DayLen)
        ELSE last.result = Some(last.text.dt)

(***************************************************************************)
(* The store: bookings one at a time, cancellations, and the tools.        *)
(***************************************************************************)
\* the appointments of the collection that satisfy nothing but being of barber_id.
OfBarber(barber_id) ==
    {i \in 1..Len(appointments) : appointments[i].barber_id = barber_id}

\* book_appointment has just returned from the request for "sara" on Wednesday
\* 3 December 2025 at 18:00, with the seeded barbers and no other appointment of
\* Sarah Davis in the collection.
SaraAtSix ==
    /\ last.op = "book"
    /\ last.args = BookRequest("ann@mail.com", Sara, SarahDavis, Naive(At(2, 18, 0, 0)))
    /\ barbers = SeedBarbers
    /\ \A i \in OfBarber(B3) : appointments[i].id = last.result.appointment_id

\* C21 as stated: with Sarah Davis working Monday to Friday 09:00-17:00 and having
\* no appointments, a book request for "sara" on Wednesday 3 December 2025 at 18:00
\* succeeds, returns a confirmation id and persists a confirmed appointment.
C21_SaraAtSixBooked ==
    SaraAtSix =>
        /\ last.result.success
        /\ last.result.appointment_id # NoId
        /\ \E i \in OfBarber(B3) :
              /\ appointments[i].id = last.result.appointment_id
              /\ appointments[i].status = "confirmed"

\* C21 amended: that request fails with the reason "Time slot is outside working
\* hours", returns no confirmation id and persists no appointment of Sarah Davis.
C21_SaraAtSixRefused ==
    SaraAtSix =>
        /\ ~last.result.success
        /\ last.result.error = "Time slot is outside working hours"
        /\ last.result.appointment_id = NoId
        /\ OfBarber(B3) = {}

\* the request for "sara" at 18:00 has been answered.
C21_SaraAtSixAsked == SaraAtSix

\* the instant the last book request asked for, as book_appointment parsed it.
BookedDt == parse_natural_datetime(now, last.args.datetime_str)

\* the barber the last book request asked for, as book_appointment resolved it.
BookedWho == BookResolve(barbers, last.args.barber_id, last.args.barber_name)

\* the confirmed appointments of barber_id that start at instant t.
Standing(barber_id, t) ==
    {i \in OfBarber(barber_id) : /\ appointments[i].appointment_datetime = t
                                 /\ appointments[i].status = "confirmed"}

\* book_appointment has just returned from a request for a barber and an instant at
\* which a confirmed appointment of an earlier book stands.
Rebooked ==
    /\ last.op = "book"
    /\ BookedDt # None
    /\ BookedWho.found
    /\ \E i \in Standing(BookedWho.barber_id, BookedDt.dt) :
          appointments[i].id # last.result.appointment_id

\* the alternatives of the last result lie on calendar day d.
AlternativesOn(d) ==
    \A i \in 1..Len(last.result.alternatives) : last.result.alternatives[i].datetime[1] = d

\* the open slots of the requested barber on the requested day.
OpenThatDay ==
    get_available_slots(barbers, appointments, now, BookedWho.barber_id, BookedDt.dt,
                        DefaultDuration)

\* C22 as stated: a book request for a provider and instant that an earlier book
\* already booked fails with the conflict reason, creates no second appointment, and
\* offers at least one alternative slot on the same day.
C22_RebookConflicts ==
    Rebooked =>
        /\ ~last.result.success
        /\ last.result.error = "Time slot conflicts with existing appointment"
        /\ Cardinality(Standing(BookedWho.barber_id, BookedDt.dt)) = 1
        /\ last.result.alternatives # << >>
        /\ AlternativesOn(DateOf(BookedDt.dt))

\* C22 amended: such a request fails, returns no confirmation id and creates no
\* second appointment.  While the instant is not in the past the reason is the
\* conflict reason and the alternatives are slots of the same day: as many as that
\* day has open slots, up to five, so none when the day is full.  Once the instant is
\* in the past the reason is "Time slot is in the past".
C22_RebookRefused ==
    Rebooked =>
        /\ ~last.result.success
        /\ last.result.appointment_id = NoId
        /\ Cardinality(Standing(BookedWho.barber_id, BookedDt.dt)) = 1
        /\ IF BookedDt.dt < now
           THEN last.result.error = "Time slot is in the past"
           ELSE /\ last.result.error = "Time slot conflicts with existing appointment"
                /\ AlternativesOn(DateOf(BookedDt.dt))
                /\ Len(last.result.alternatives) = Min({MaxAlternatives, Len(OpenThatDay)})

\* a booked slot was asked for again while the day still had open slots.
C22_RebookedWithAlternatives ==
    /\ Rebooked
    /\ BookedDt.dt >= now
    /\ last.result.alternatives # << >>

\* the values the status field is documented to take.
Statuses == {"confirmed", "cancelled", "completed"}

\* the operations exposed as tools, by the name they leave in `last`.
ToolOps == {"search_barbers", "check_slots", "book", "check_specific_slot", "my_appointments"}

\* C23: every appointment has status confirmed when it is created; its status is
\* always one of confirmed, cancelled, completed; a step changes the status of an
\* existing appointment only if it is cancel_appointment, and then to cancelled; no
\* tool changes the status of an existing appointment.
C23_StatusLifecycle ==
    [][/\ Len(appointments') >= Len(appointments)
       /\ \A i \in 1..Len(appointments') : appointments'[i].status \in Statuses
       /\ \A i \in (Len(appointments) + 1)..Len(appointments') :
             appointments'[i].status = "confirmed"
       /\ \A i \in 1..Len(appointments) :
             appointments'[i].status # appointments[i].status
                => /\ last'.op = "cancel_appointment"
                   /\ last'.op \notin ToolOps
                   /\ appointments'[i].status = "cancelled"]_vars

\* cancel_appointment has just cancelled an appointment that book created.
C23_CancelledOne ==
    /\ last.op = "cancel_appointment"
    /\ last.result
    /\ \E i \in 1..Len(appointments) :
          /\ appointments[i].id = last.appointment_id
          /\ appointments[i].status = "cancelled"

\* the texts a failed try block of book_appointment reports.
CreateErrors ==
    {"Failed to create appointment: validation error",
     "Failed to create appointment: insert error"}

\* C24: when the availability check of a book request passes and the construction of
\* the Appointment or its insert then fails, book_appointment returns a failure
\* result without appointment_id that carries the text of the error, and the
\* collection is left as it was; a malformed email always fails the construction.
C24_FailedCreateReported ==
    [][(/\ last'.op = "book"
        /\ BookCheck(barbers, appointments, now, last'.args).proceed)
          => /\ last'.args.customer_email \notin ValidEmails => ~last'.result.success
             /\ ~last'.result.success
                   => /\ last'.result.appointment_id = NoId
                      /\ last'.result.error \in CreateErrors
                      /\ last'.args.customer_email \notin ValidEmails
                            <=> last'.result.error
                                   = "Failed to create appointment: validation error"
                      /\ appointments' = appointments]_vars

\* an insert has failed inside book_appointment.
C24_InsertFailed ==
    /\ last.op = "book"
    /\ ~last.result.success
    /\ last.result.error = "Failed to create appointment: insert error"
    /\ last.result.appointment_id = NoId

(***************************************************************************)
(* The token stage of the name resolution.                                 *)
(***************************************************************************)
\* the words of the reference resolved last, as get_barber_by_name splits them.
QueryWords == Split(Lower(Strip(last.ref)))

\* some word of the query lies inside some word of the name, or holds one.
WordsMeet(search_words, name) == WordTest(search_words, Split(Lower(name)))

\* C25: the token stage matches a candidate whenever some word of the query is a
\* substring of some word of the candidate's name, and also whenever some word of
\* the query contains some word of the candidate's name ("johnny" against "john").
C25_TokenStageBothWays ==
    last.op = "resolve_barber" =>
        \A i \in 1..Len(barbers) :
            (barbers[i].is_available /\ WordsMeet(QueryWords, barbers[i].name))
               => TokenStage(AvailableBarbers(barbers), QueryWords) # None

\* C26: with book operations executed one at a time, the collection never holds two
\* confirmed appointments of one barber whose intervals overlap, and every
\* appointment has a duration of 30 minutes and lies inside the work window its
\* barber has on the weekday of the appointment.
C26_SequentialNoOverlap ==
    /\ ~DoubleBooked(appointments)
    /\ \A i \in 1..Len(appointments) :
          /\ appointments[i].duration_minutes = 30
          /\ Known(appointments[i].barber_id)
          /\ WorksOn(appointments[i].barber_id, appointments[i].appointment_datetime)
          /\ InsideWindow(appointments[i].barber_id, appointments[i].appointment_datetime,
                          appointments[i].duration_minutes)

\* one barber has two confirmed appointments on one day.
C26_TwoOnOneDay ==
    \E i, j \in 1..Len(appointments) :
        /\ i < j
        /\ appointments[i].barber_id = appointments[j].barber_id
        /\ appointments[i].status = "confirmed"
        /\ appointments[j].status = "confirmed"
        /\ DateOf(appointments[i].appointment_datetime)
              = DateOf(appointments[j].appointment_datetime)

(***************************************************************************)
(* The slot listing against the conflict checker.                          *)
(***************************************************************************)
\* the verdict of check_slot_availability, in the present state, on the slot of 30
\* minutes that starts at t with the barber that check_slots resolved from ref.
VerdictOnListed(ref, t) ==
    check_slot_availability(barbers, appointments, now, ResolveBarber(barbers, ref).id, t,
                            DefaultDuration)

\* C27: in one state of the store and at one instant, every slot that check_slots
\* returns for a barber and a date is judged available by check_slot_availability
\* for that barber, the slot's start and 30 minutes, also when the barber's
\* availability flag is false.
C27_ListedSlotsAvailable ==
    last.op = "check_slots" =>
        \A i \in 1..Len(last.result) :
            VerdictOnListed(last.barber_id, last.result[i].time).available

\* C28: every appointment in the collection carries as barber_name the name of the
\* barber document its barber_id refers to, whatever barber_name the caller of
\* book_appointment supplied.
C28_NameOfTheBarber ==
    \A i \in 1..Len(appointments) :
        /\ Known(appointments[i].barber_id)
        /\ appointments[i].barber_name = TheBarber(appointments[i].barber_id).name

(***************************************************************************)
(* The reply of /chat.                                                     *)
(***************************************************************************)
\* C29: the reply /chat returns for a turn is the content of the message the agent
\* ended the turn with (the apology standing in for an empty one): never the text of
\* an assistant message of the caller's history, nor of an earlier message of the
\* turn that asked for tools.
C29_ReplyIsTerminal ==
    (Answered /\ entry = "chat") =>
        /\ delivered.kind = "reply"
        /\ delivered.text \in {TerminalMessage.content, Apology}

(***************************************************************************)
(* Cancelled appointments.                                                 *)
(***************************************************************************)
\* the collection without its i-th document.
Without(appts, i) == [j \in 1..(Len(appts) - 1) |-> IF j < i THEN appts[j] ELSE appts[j + 1]]

\* no confirmed appointment of the barber of a overlaps the interval of a.
Unclaimed(a) ==
    \A j \in 1..Len(appointments) :
        ~DoubleBooks(appointments[j], [a EXCEPT !.status = "confirmed"])

\* the start of a is one of the instants get_available_slots steps through.
OnGrid(a) ==
    (a.appointment_datetime - OpenTime(a.barber_id, a.appointment_datetime))
        % Minutes(SlotStride) = 0

\* the slots listed for the barber and the day of a, from the collection appts.
ListedFor(a, appts) ==
    get_available_slots(barbers, appts, now, a.barber_id, a.appointment_datetime,
                        DefaultDuration)

\* the verdict on the barber and the interval of a, from the collection appts.
VerdictFor(a, appts) ==
    check_slot_availability(barbers, appts, now, a.barber_id, a.appointment_datetime,
                            a.duration_minutes)

\* the cancelled appointment a, the i-th of the collection, does not block its interval.
Freed(a, i) ==
    /\ VerdictFor(a, appointments) = VerdictFor(a, Without(appointments, i))
    /\ ListedFor(a, appointments) = ListedFor(a, Without(appointments, i))
    /\ Unclaimed(a) =>
          /\ VerdictFor(a, appointments).reason
                # "Time slot conflicts with existing appointment"
          /\ a.appointment_datetime >= now => VerdictFor(a, appointments).available
          /\ (/\ OnGrid(a)
              /\ (a.appointment_datetime > now
                     \/ DateOf(a.appointment_datetime) # DateOf(now)))
                => \E k \in 1..Len(ListedFor(a, appointments)) :
                      ListedFor(a, appointments)[k].time = a.appointment_datetime

\* C30: once cancel_appointment has succeeded on a confirmed appointment, the record
\* stays in the collection with status cancelled and no longer blocks its interval:
\* after the cancellation, and after every later booking, cancellation and advance of
\* the clock, check_slot_availability and get_available_slots answer as if it were not
\* there, so no conflict is reported because of it and its slot is listed again.
C30_CancelledFrees ==
    /\ (last.op = "cancel_appointment" /\ last.result)
          => \E i \in 1..Len(appointments) :
                /\ appointments[i].id = last.appointment_id
                /\ appointments[i].status = "cancelled"
    /\ last.op \in {"cancel_appointment", "book", "tick"}
          => \A i \in 1..Len(appointments) :
                appointments[i].status = "cancelled" => Freed(appointments[i], i)

\* a new booking has succeeded for the barber and the interval of a cancelled
\* appointment, whose record is still in the collection.
C30_RebookedAfterCancel ==
    /\ last.op = "book"
    /\ last.result.success
    /\ \E i, j \in 1..Len(appointments) :
          /\ appointments[i].status = "cancelled"
          /\ appointments[j].status = "confirmed"
          /\ appointments[j].id = last.result.appointment_id
          /\ appointments[j].barber_id = appointments[i].barber_id
          /\ appointments[j].appointment_datetime = appointments[i].appointment_datetime

====
